---- MODULE Spec2Model ----
(***************************************************************************)
(* A model of the HTTP transport data computation of goa                   *)
(* (http/codegen/service_data.go): the data types of the design, the       *)
(* predicates needInit and needConversion, the body type synthesis         *)
(* (buildBodyType, attributeTypeData) and the request analysis             *)
(* (analyze, buildPayloadData, extractPathParams, ...).                    *)
(*                                                                         *)
(* Data types are tuples tagged by their first element:                    *)
(*   <<"empty">>            design.Empty                                   *)
(*   <<"prim", kind>>       design.Primitive                               *)
(*   <<"array", elem>>      *design.Array                                  *)
(*   <<"map", key, elem>>   *design.Map                                    *)
(*   <<"object", fields>>   *design.Object, fields the sequence of the     *)
(*                          field types; field i is named FieldName(i)     *)
(*   <<"user", id>>         design.UserType                                *)
(***************************************************************************)
EXTENDS Integers, Sequences, FiniteSets, TLC

\* The largest number of fields of an object type.
MaxFields == 2

\* The largest number of params and headers of an endpoint.
MaxParams == 2

\* The largest number of errors of an endpoint.
MaxErrors == 3

\* The largest number of pending calls of a traversal of a type.
MaxDepth == 8

VARIABLES
    \* -- the type predicates (needInit, needConversion)
    dt,             \* the data type given to the predicates
    calls,          \* the predicates called so far
    initResult,     \* what needInit(dt) returned
    convResult,     \* what needConversion(dt) returned
    \* -- the analysis of an endpoint (ServicesData.analyze)
    endpoint,       \* the endpoint of the design (e, an httpdesign.EndpointExpr)
    registry,       \* the attribute of each user type of the design
    pc,             \* the step of analyze to run next
    scope,          \* svc.Scope: how many times each name was handed out
    routes,         \* the RouteData of the endpoint
    payload,        \* the PayloadData of the endpoint
    result,         \* the ResultData of the endpoint
    errors,         \* the ErrorGroupData of the endpoint
    sd,             \* the ServiceData being built (rd in analyze)
    stdout,         \* the lines printed with fmt.Println
    \* -- the endpoints of a service (the loops of ServicesData.analyze)
    svcEndpoints,   \* hs.HTTPEndpoints with the VarName of the method of each
    svcIndex,       \* the index of the endpoint the loop is at
    svcPhase,       \* the loop running: "endpoints", then "types"; "off" outside
    svcData,        \* rd.Endpoints: the path constructors of each endpoint
    \* -- the generated server stream (Send)
    once,           \* s.once: "new", "running" while a call runs f, then "done"
    conn,           \* s.conn: nil or the websocket connection
    sendPc,         \* the statement of Send each goroutine is at
    sendErr,        \* err of the call of Send of each goroutine
    sends,          \* how many times Send was called
    wire,           \* what happened to the HTTP connection, in order
    \* -- the registry of service data (ServicesData.Get)
    rootServices,   \* the names of the services of the design (httpdesign.Root)
    servicesData,   \* d: for each name, nil or the stored *ServiceData
    getName,        \* the name given to the last Get
    getOk,          \* whether the last Get found stored data (ok)
    getRet,         \* what the last Get returned
    analyzeCalls,   \* how many times Get called analyze
    \* -- the generated conversions (ConvertTo..., CreateFrom...)
    convKind,       \* the design type converted: StringType or ObjectField
    convRequired,   \* whether the fields of the design type are required
    convPointer,    \* whether the external type holds pointers (StringPointerT)
    convT,          \* t: the value of the design type
    convV,          \* v: the value of the external type
    convBack,       \* the value of the design type created from v
    convPc,         \* the conversion to run next
    \* -- the traversals of a type, call by call
    walkFn,         \* the function running: collectUserTypes, needInit, needConversion
    walkStack,      \* the calls still to make, the next first
    walkSeen,       \* the map seen of collectUserTypes (s)
    walkCbs,        \* the user types given to the callback cb, in order
    walkRet,        \* whether needInit or needConversion returned true
    walkPc,         \* "run" until the function returns, then "done"
    \* -- the JSON schema generator (genschema.Generator)
    genfiles,       \* g.genfiles: the files recorded as generated
    disk,           \* the files that exist
    genPc,          \* the statement of Generate to run next, "idle" outside it
    genRet,         \* how the last Generate returned: "ok" or the call that failed
    \* -- the design DSL (dsl.Payload)
    dslMethods,     \* the Payload of each method expression: nil or an attribute
    dslTypes,       \* the user types: for each identity, nil or its fields
    dslCtx,         \* eval.Current() at the last call of Payload
    dslVal,         \* the first argument of the last call
    dslArgs,        \* the other arguments of the last call
    dslErrors       \* the errors the last call reported

typeVars == <<dt, calls, initResult, convResult>>

designVars == <<endpoint, registry>>

analysisVars == <<pc, scope, routes, payload, result, errors, sd, stdout>>

getVars == <<rootServices, servicesData, getName, getOk, getRet, analyzeCalls>>

convVars == <<convKind, convRequired, convPointer, convT, convV, convBack, convPc>>

walkVars == <<walkFn, walkStack, walkSeen, walkCbs, walkRet, walkPc>>

genVars == <<genfiles, disk, genPc, genRet>>

dslVars == <<dslMethods, dslTypes, dslCtx, dslVal, dslArgs, dslErrors>>

svcVars == <<svcEndpoints, svcIndex, svcPhase, svcData>>

streamVars == <<once, conn, sendPc, sendErr, sends, wire>>

\* The variables of the components other than the analysis of an endpoint.
otherVars == <<getVars, convVars, walkVars, genVars, dslVars, svcVars, streamVars>>

vars == <<typeVars, designVars, analysisVars, otherVars>>

\* The names a service may have.
ServiceNames == {"s1", "s2", "s3", "s4"}

\* ServicesData before any Get: nothing is stored.
IdleGet ==
    /\ rootServices = {}
    /\ servicesData = [n \in ServiceNames |-> <<>>]
    /\ getName = ""
    /\ getOk = FALSE
    /\ getRet = <<>>
    /\ analyzeCalls = 0

\* No value is being converted.
IdleConv ==
    /\ convKind = "StringType"
    /\ convRequired = TRUE
    /\ convPointer = FALSE
    /\ convT = [String |-> ""]
    /\ convV = [String |-> ""]
    /\ convBack = [String |-> ""]
    /\ convPc = "idle"

\* No traversal is running.
IdleWalk ==
    /\ walkFn = ""
    /\ walkStack = <<>>
    /\ walkSeen = {}
    /\ walkCbs = <<>>
    /\ walkRet = FALSE
    /\ walkPc = "idle"

\* No generator was made.
IdleGen ==
    /\ genfiles = <<>>
    /\ disk = {}
    /\ genPc = "off"
    /\ genRet = "none"

\* The method expressions of the design.
MethodNames == {"add", "divide"}

\* The identities of the user types: the user type Operands of the design
\* and those design.Dup may allocate.
DupIds == {"dup1", "dup2"}

UserIds == {"Operands"} \cup DupIds

\* The design before any call of Payload.
IdleDsl ==
    /\ dslMethods = [m \in MethodNames |-> <<>>]
    /\ dslTypes = [u \in UserIds |-> IF u = "Operands" THEN <<<<"left", "right">>>> ELSE <<>>]
    /\ dslCtx = "none"
    /\ dslVal = <<"none">>
    /\ dslArgs = <<>>
    /\ dslErrors = <<>>

\* The goroutines that call Send on one server stream.
Senders == {1, 2, 3}

\* No service is being analyzed.
IdleSvc ==
    /\ svcEndpoints = <<>>
    /\ svcIndex = 0
    /\ svcPhase = "off"
    /\ svcData = <<>>

\* No server stream was made.
IdleStream ==
    /\ once = "new"
    /\ conn = <<>>
    /\ sendPc = [g \in Senders |-> "off"]
    /\ sendErr = [g \in Senders |-> FALSE]
    /\ sends = 0
    /\ wire = <<>>

\* The components other than the analysis of an endpoint, idle.
InitOther ==
    IdleGet /\ IdleConv /\ IdleWalk /\ IdleGen /\ IdleDsl /\ IdleSvc /\ IdleStream

-----------------------------------------------------------------------------
(* The data types of the design.                                           *)

\* The primitive kinds (a sample of design.Kind: one integer kind stands for
\* the numeric kinds, which the code below never tells apart).
Kinds == {"boolean", "int", "string", "bytes", "any"}

UserTypeIds == {"U1", "U2"}

Empty == <<"empty">>

Primitive(k) == <<"prim", k>>

Array(e) == <<"array", e>>

Map(k, e) == <<"map", k, e>>

Object(fs) == <<"object", fs>>

UserType(id) == <<"user", id>>

\* The sequences over S of at most n elements.
SeqsUpTo(S, n) == UNION {[1..m -> S] : m \in 0..n}

\* The leaves: primitives and user types.
Types0 == {Primitive(k) : k \in Kinds} \cup {UserType(u) : u \in UserTypeIds}

\* One level of composition over the leaves.
Types1 ==
    Types0
    \cup {Array(e) : e \in Types0}
    \cup {Map(k, e) : k \in Types0, e \in Types0}
    \cup {Object(fs) : fs \in SeqsUpTo(Types0, MaxFields)}

\* Two levels of composition.
Types2 ==
    Types1
    \cup {Array(e) : e \in Types1}
    \cup {Map(k, e) : k \in Types0, e \in Types1}
    \cup {Map(k, e) : k \in Types1, e \in Types0}
    \cup {Object(fs) : fs \in SeqsUpTo(Types0 \cup {Array(e) : e \in Types0}, MaxFields)}

\* The data types the predicates are called with; Empty is the type of an
\* absent payload, result or body and only occurs at the root.
DataTypes == Types2 \cup {Empty}

-----------------------------------------------------------------------------
(* needConversion and needInit.                                            *)

RECURSIVE needConversionBytes(_)
\* needConversion with the bytes kind left out of the kinds that need no
\* conversion.
needConversionBytes(t) ==
    IF t = Empty THEN FALSE
    ELSE CASE t[1] = "prim" ->
                IF t[2] = "string" \/ t[2] = "any"
                THEN FALSE
                ELSE TRUE
           [] t[1] = "array" -> needConversionBytes(t[2])
           [] t[1] = "map" -> needConversionBytes(t[2]) \/ needConversionBytes(t[3])
           [] OTHER -> TRUE

RECURSIVE needConversion(_)
\* needConversion returns true if the type needs to be converted from a string.
needConversion(t) ==
    IF t = Empty THEN FALSE
    ELSE CASE t[1] = "prim" ->
                IF t[2] = "string" \/ t[2] = "any" \/ t[2] = "bytes"
                THEN FALSE
                ELSE TRUE
           [] t[1] = "array" -> needConversion(t[2])
           [] t[1] = "map" -> needConversion(t[2]) \/ needConversion(t[3])
           [] OTHER -> TRUE

RECURSIVE needInitNoKey(_)
\* needInit with the key type of a map left out.
needInitNoKey(t) ==
    IF t = Empty THEN FALSE
    ELSE CASE t[1] = "prim" -> FALSE
           [] t[1] = "array" -> needInitNoKey(t[2])
           [] t[1] = "map" -> needInitNoKey(t[3])
           [] t[1] = "object" -> \E i \in 1..Len(t[2]) : needInitNoKey(t[2][i])
           [] t[1] = "user" -> TRUE

RECURSIVE needInit(_)
\* needInit returns true if and only if the given type is or makes use of
\* user types.
needInit(t) ==
    IF t = Empty THEN FALSE
    ELSE CASE t[1] = "prim" -> FALSE
           [] t[1] = "array" -> needInit(t[2])
           [] t[1] = "map" -> needInit(t[2]) \/ needInit(t[3])
           [] t[1] = "object" -> \E i \in 1..Len(t[2]) : needInit(t[2][i])
           [] t[1] = "user" -> TRUE

-----------------------------------------------------------------------------
(* Attributes.  An attribute (design.AttributeExpr) is a record            *)
(*   [Type, Required, Default, Validation]                                 *)
(* where, for an object type, Required and Default are the sets of the     *)
(* indices of the fields that are required and that have a default value,  *)
(* and Validation tells whether the attribute carries a validation rule    *)
(* other than the required fields (a pattern, a length, a range, ...).     *)
(* A pointer that may be nil is a sequence of length 0 or 1.               *)

Nil == <<>>

\* A local variable: the value x under the name the operator F gives it.
With(x, F(_)) == F(x)

Attribute(t, req, def, val) ==
    [Type |-> t, Required |-> req, Default |-> def, Validation |-> val]

\* The attribute of a type with neither field metadata nor validation, as in
\* &design.AttributeExpr{Type: t}.
AttributeOf(t) == Attribute(t, {}, {}, FALSE)

\* design.IsPrimitive
IsPrimitive(t) == t[1] = "prim"

\* design.AsObject: the fields of an object or of a user type that is an
\* object, none otherwise.
AsObject(t) ==
    CASE t[1] = "object" -> t[2]
      [] t[1] = "user" ->
            IF registry[t[2]].Type[1] = "object" THEN registry[t[2]].Type[2] ELSE <<>>
      [] OTHER -> <<>>

\* design.IsObject
IsObject(t) ==
    \/ t[1] = "object"
    \/ t[1] = "user" /\ registry[t[2]].Type[1] = "object"

\* design.IsArray
IsArray(t) ==
    \/ t[1] = "array"
    \/ t[1] = "user" /\ registry[t[2]].Type[1] = "array"

\* design.IsMap
IsMap(t) ==
    \/ t[1] = "map"
    \/ t[1] = "user" /\ registry[t[2]].Type[1] = "map"

\* The attribute that holds the fields of att: the attribute of its user type,
\* or att itself.
Underlying(att) ==
    IF att.Type[1] = "user" THEN registry[att.Type[2]] ELSE att

\* DataType.Name()
TypeName(t) == IF t[1] \in {"prim", "user"} THEN t[2] ELSE t[1]

\* A primitive that is held by value or by pointer (bytes and any are held by
\* reference already).
PointerKind(t) == IsPrimitive(t) /\ t[2] \notin {"bytes", "any"}

\* AttributeExpr.IsPrimitivePointer for field i of the object attribute a: the
\* field is a primitive held by pointer, i.e. it is not required and has no
\* default value (or default values are not considered).
IsPrimitivePointer(a, i, useDefault) ==
    /\ i \in 1..Len(AsObject(a.Type))
    /\ PointerKind(AsObject(a.Type)[i])
    /\ i \notin Underlying(a).Required
    /\ (i \notin Underlying(a).Default \/ ~useDefault)

\* goTypeDef: the struct definition of the attribute, one entry per field with
\* its type and whether it is held by pointer.  With ptr every primitive field
\* is a pointer whether required or not; otherwise the pointer fields are
\* those IsPrimitivePointer tells, useDefault saying whether default values
\* are considered.
goTypeDef(att, ptr, useDefault) ==
    [i \in 1..Len(AsObject(att.Type)) |->
        [Type |-> AsObject(att.Type)[i],
         Pointer |-> \/ IsPrimitivePointer(att, i, useDefault)
                     \/ ptr /\ PointerKind(AsObject(att.Type)[i])]]

\* codegen.RecursiveValidationCode: the validation code of the attribute, as
\* the set of the checks it makes: <<"rule", target>> for the validation rules
\* of the attribute or of its user type, <<"required", i>> for each required
\* field i whose absence shows (a field held by pointer or by reference).
\* The empty set is the empty code.
RecursiveValidationCode(att, req, ptr, def, target) ==
    (IF att.Validation \/ Underlying(att).Validation
     THEN {<<"rule", target>>} ELSE {})
    \cup {<<"required", i>> : i \in
            {j \in Underlying(att).Required \cap (1..Len(AsObject(att.Type))) :
                ptr \/ ~PointerKind(AsObject(att.Type)[j])}}

RECURSIVE Compatible(_, _)
\* Whether a value of type a can be transformed to a value of type b: the two
\* have the same shape once the user types are resolved, i.e. the same
\* primitive kind, arrays of compatible elements, maps of compatible keys and
\* elements, objects whose fields of the same name are compatible.
Compatible(a, b) ==
    IF a[1] = "user" THEN Compatible(registry[a[2]].Type, b)
    ELSE IF b[1] = "user" THEN Compatible(a, registry[b[2]].Type)
    ELSE IF a[1] # b[1] THEN FALSE
    ELSE CASE a[1] = "prim" -> a[2] = b[2]
           [] a[1] = "array" -> Compatible(a[2], b[2])
           [] a[1] = "map" -> Compatible(a[2], b[2]) /\ Compatible(a[3], b[3])
           [] a[1] = "object" ->
                \A i \in 1..Len(a[2]) : i <= Len(b[2]) => Compatible(a[2][i], b[2][i])
           [] OTHER -> TRUE

\* codegen.GoTypeTransform: the code that transforms a value of the source
\* type to a value of the target type, or an error.  The code is a sequence,
\* empty for the empty string; the code of a transform names its source and
\* its target.
GoTypeTransform(source, target) ==
    IF Compatible(source, target)
    THEN [code |-> <<<<"transform", source, target>>>>, err |-> FALSE]
    ELSE [code |-> <<>>, err |-> TRUE]

-----------------------------------------------------------------------------
(* buildBodyType.                                                          *)

\* marshaled with the side left out.
marshaledReq(req, svr) == req

\* marshaled with the direction left out.
marshaledNotSvr(req, svr) == ~svr

\* When producing a type that is used for marshaling then produce the
\* marshaling code and consider default values.  Otherwise when generating
\* types that are used to unmarshal use pointer fields regardless of whether
\* the attribute is required or has a default value.
marshaled(req, svr) == ~svr /\ req

\* The TypeData buildBodyType returns for a body that is not Empty.  Def is
\* Nil (no definition) or holds the struct definition; Description holds the
\* context of the body type for a user type.
buildBodyTypeData(body, att, req, svr, viewed) ==
    LET isUT == body.Type[1] = "user"
        m == marshaled(req, svr)
        ctx == IF ~req THEN "response" ELSE "request"
        validateDef ==
            IF isUT /\ ((svr /\ req) \/ (~svr /\ ~req /\ ~viewed))
            THEN RecursiveValidationCode(body, TRUE, ~m, m, "body")
            ELSE {}
        validateRef ==
            IF isUT
            THEN (IF validateDef # {} THEN {<<"call", "body.Validate">>} ELSE {})
            ELSE RecursiveValidationCode(body, TRUE, ~m, m, "body")
        init ==
            IF ((svr /\ ~req) \/ (~svr /\ req)) /\ att.Type # Empty /\ needInit(body.Type)
            THEN <<[Name |-> <<"New", TypeName(body.Type)>>,
                    Server |-> svr,
                    Code |-> GoTypeTransform(att.Type, body.Type).code,
                    Args |-> <<[Name |-> IF ~req THEN "res" ELSE "p",
                                Ref |-> IF viewed THEN "Projected" ELSE "",
                                Validate |-> validateDef]>>]>>
            ELSE Nil
    IN  [Name |-> TypeName(body.Type),
         Description |-> IF isUT THEN ctx ELSE "",
         Init |-> init,
         Def |-> IF isUT THEN <<goTypeDef(registry[body.Type[2]], ~m, m)>> ELSE Nil,
         ValidateDef |-> validateDef,
         ValidateRef |-> validateRef]

\* buildBodyType without the test of an empty body.
buildBodyTypeNoEmpty(body, att, req, svr, viewed) ==
    <<buildBodyTypeData(body, att, req, svr, viewed)>>

\* A buildBodyType that builds no server-side data for a body that is not
\* a user type.
buildBodyTypeUserOnly(body, att, req, svr, viewed) ==
    IF body.Type = Empty \/ (svr /\ body.Type[1] # "user")
    THEN Nil
    ELSE <<buildBodyTypeData(body, att, req, svr, viewed)>>

\* buildBodyType builds the TypeData for a request or response body: nil if
\* the body is Empty.  att is the payload, result or error attribute, req
\* tells a request body from a response body, svr the server side from the
\* client side, viewed whether the body is built from a viewed result type.
buildBodyType(body, att, req, svr, viewed) ==
    IF body.Type = Empty
    THEN Nil
    ELSE <<buildBodyTypeData(body, att, req, svr, viewed)>>

-----------------------------------------------------------------------------
(* collectUserTypes and attributeTypeData.                                 *)

RECURSIVE collectUserTypes(_, _, _)
RECURSIVE collectEach(_, _, _)

\* collectUserTypes traverses the given data type recursively and calls back
\* the given function for each attribute using a user type.  given tells
\* whether a seen map was handed in (seen...), s0 is that map.  The result
\* holds the user types called back, in order, and the seen map as the call
\* leaves it.  The map is created afresh by a call that is handed none, and
\* the calls made for the fields of an object, the element of an array and the
\* key and element of a map are handed what the call itself was handed.
collectUserTypes(t, given, s0) ==
    IF t = Empty
    THEN [cbs |-> <<>>, seen |-> s0]
    ELSE LET s == IF given THEN s0 ELSE {}
         IN  CASE t[1] = "object" -> collectEach(t[2], given, s0)
               [] t[1] = "array" -> collectUserTypes(t[2], given, s0)
               [] t[1] = "map" -> collectEach(<<t[2], t[3]>>, given, s0)
               [] t[1] = "user" ->
                    IF t[2] \in s
                    THEN [cbs |-> <<>>, seen |-> s0]
                    ELSE LET r == collectUserTypes(registry[t[2]].Type, TRUE,
                                                   s \cup {t[2]})
                         IN  [cbs |-> <<t>> \o r.cbs,
                              seen |-> IF given THEN r.seen ELSE s0]
               [] OTHER -> [cbs |-> <<>>, seen |-> s0]

\* The calls of collectUserTypes for the types ts, one after the other.
collectEach(ts, given, s0) ==
    IF ts = <<>>
    THEN [cbs |-> <<>>, seen |-> s0]
    ELSE LET r == collectUserTypes(Head(ts), given, s0)
             rest == collectEach(Tail(ts), given, IF given THEN r.seen ELSE s0)
         IN  [cbs |-> r.cbs \o rest.cbs, seen |-> rest.seen]

\* The TypeData of a user type used by a body type, whether its name is
\* recorded or not.
attributeTypeDataAgain(ut, req, ptr, server, rd) ==
    [data |-> <<[Name |-> TypeName(ut),
                 Description |-> IF ~req THEN "response" ELSE "request",
                 Init |-> Nil,
                 Def |-> <<goTypeDef(registry[ut[2]], ptr, (~req /\ server) \/ (req /\ ~server))>>,
                 ValidateDef |-> {},
                 ValidateRef |-> {}]>>,
     rd |-> rd]

\* attributeTypeData: the TypeData of a user type used by a body type, nil if
\* its name is recorded already; data is the TypeData, rd the ServiceData with
\* the name recorded.
attributeTypeData(ut, req, ptr, server, rd) ==
    IF ut = Empty
    THEN [data |-> Nil, rd |-> rd]
    ELSE LET seen == IF ~server THEN rd.ClientTypeNames ELSE rd.ServerTypeNames
             ctx == IF ~req THEN "response" ELSE "request"
             \* we want to consider defaults if generating the type for a
             \* response server side or a request client side
             useDefault == (~req /\ server) \/ (req /\ ~server)
             validate == RecursiveValidationCode(registry[ut[2]], TRUE, ptr,
                                                 useDefault, "body")
         IN  IF TypeName(ut) \in seen
             THEN [data |-> Nil, rd |-> rd]
             ELSE [data |-> <<[Name |-> TypeName(ut),
                               Description |-> ctx,
                               Init |-> Nil,
                               Def |-> <<goTypeDef(registry[ut[2]], ptr, useDefault)>>,
                               ValidateDef |-> validate,
                               ValidateRef |-> IF validate # {}
                                               THEN {<<"call", "v.Validate">>}
                                               ELSE {}]>>,
                   rd |-> IF ~server
                          THEN [rd EXCEPT !.ClientTypeNames = @ \cup {TypeName(ut)}]
                          ELSE [rd EXCEPT !.ServerTypeNames = @ \cup {TypeName(ut)}]]

\* The callback analyze gives to collectUserTypes, for one user type: the
\* server then the client TypeData is appended unless nil.  cptr is the ptr
\* argument of the client call.
recordAttributeTypes(ut, req, cptr, rd) ==
    LET sv == attributeTypeData(ut, req, TRUE, TRUE, rd)
        rd1 == [sv.rd EXCEPT !.ServerBodyAttributeTypes = @ \o sv.data]
        cl == attributeTypeData(ut, req, cptr, FALSE, rd1)
    IN  [cl.rd EXCEPT !.ClientBodyAttributeTypes = @ \o cl.data]

RECURSIVE recordAll(_, _, _, _)
\* The callback applied to the user types uts in order.
recordAll(uts, req, cptr, rd) ==
    IF uts = <<>>
    THEN rd
    ELSE recordAll(Tail(uts), req, cptr, recordAttributeTypes(Head(uts), req, cptr, rd))

RECURSIVE collectBodies(_, _)
\* The user types of the response bodies bs, recorded body after body.
collectBodies(bs, rd) ==
    IF bs = <<>>
    THEN rd
    ELSE collectBodies(Tail(bs),
            recordAll(collectUserTypes(Head(bs).Type, FALSE, {}).cbs, FALSE, TRUE, rd))

-----------------------------------------------------------------------------
(* The params and headers of an endpoint.  A param or header of the design *)
(* is a record [Name, Type, Required, Default, Validation]: the attribute  *)
(* of that name, whether the payload requires it, whether it has a default *)
(* value and whether it carries a validation rule.  The endpoint is a      *)
(* record                                                                  *)
(*   [Payload, Result, Body, Params, Headers, MapQueryParams, MapAttr,     *)
(*    Routes, Responses, HTTPErrors, Viewed]                               *)
(* where Routes holds, for each full path of each route, the sequence of   *)
(* its wildcards, MapQueryParams is nil or holds the name given to         *)
(* MapParams and MapAttr is the payload attribute of that name.            *)

\* NameScope.Unique: the name itself the first time it is asked for, the name
\* with a counter after that; the name is paired with the counter.
Unique(sc, name) ==
    IF name \in DOMAIN sc
    THEN [name |-> <<name, sc[name]>>, scope |-> [sc EXCEPT ![name] = @ + 1]]
    ELSE [name |-> <<name, 0>>, scope |-> sc @@ (name :> 1)]

\* The attribute of a param or header of the design.
ParamAttribute(p) == Attribute(p.Type, {}, {}, p.Validation)

RECURSIVE Flatten(_)
Flatten(ss) == IF ss = <<>> THEN <<>> ELSE Head(ss) \o Flatten(Tail(ss))

RECURSIVE Distinct(_)
\* The sequence without the later occurrences of its elements.
Distinct(q) ==
    IF q = <<>> THEN <<>>
    ELSE LET d == Distinct(SubSeq(q, 1, Len(q) - 1))
         IN  IF \E i \in 1..Len(d) : d[i] = q[Len(q)] THEN d ELSE Append(d, q[Len(q)])

\* The param of the design with the given name.
ParamNamed(ep, n) == CHOOSE p \in {ep.Params[i] : i \in 1..Len(ep.Params)} : p.Name = n

\* EndpointExpr.PathParams: the params that are wildcards of a route, in the
\* order of the routes.
PathParams(ep) ==
    LET names == Distinct(Flatten(ep.Routes))
    IN  [i \in 1..Len(names) |-> ParamNamed(ep, names[i])]

\* EndpointExpr.QueryParams: the params that are wildcards of no route.
QueryParams(ep) ==
    SelectSeq(ep.Params,
              LAMBDA p : \A i \in 1..Len(Flatten(ep.Routes)) :
                            Flatten(ep.Routes)[i] # p.Name)

\* MappedAttributeExpr.IsPrimitivePointer for a param: the param is a
\* primitive that is not required and has no default value (or default
\* values are not considered).
ParamIsPrimitivePointer(p, useDefault) ==
    PointerKind(p.Type) /\ ~p.Required /\ (~p.Default \/ ~useDefault)

\* The ParamData of a path param with the pointer taken from the attribute.
pathParamDataPointer(c, serviceType, varn) ==
    [Name |-> c.Name,
     AttributeName |-> c.Name,
     FieldName |-> IF ~IsObject(serviceType.Type) THEN "" ELSE c.Name,
     VarName |-> varn,
     Required |-> c.Required,
     Type |-> c.Type,
     TypeRef |-> [Star |-> FALSE, Type |-> c.Type],
     Pointer |-> ParamIsPrimitivePointer(c, TRUE),
     Slice |-> IsArray(c.Type),
     StringSlice |-> IsArray(c.Type) /\ c.Type[2] = Primitive("string"),
     Map |-> FALSE,
     MapStringSlice |-> FALSE,
     Validate |-> RecursiveValidationCode(ParamAttribute(c), TRUE, FALSE, FALSE, varn),
     DefaultValue |-> c.Default,
     MapQueryParams |-> Nil]

\* The ParamData of the path param c.
pathParamData(c, serviceType, varn) ==
    [Name |-> c.Name,
     AttributeName |-> c.Name,
     FieldName |-> IF ~IsObject(serviceType.Type) THEN "" ELSE c.Name,
     VarName |-> varn,
     Required |-> c.Required,
     Type |-> c.Type,
     TypeRef |-> [Star |-> FALSE, Type |-> c.Type],
     Pointer |-> FALSE,
     Slice |-> IsArray(c.Type),
     StringSlice |-> IsArray(c.Type) /\ c.Type[2] = Primitive("string"),
     Map |-> FALSE,
     MapStringSlice |-> FALSE,
     Validate |-> RecursiveValidationCode(ParamAttribute(c), TRUE, FALSE, FALSE, varn),
     DefaultValue |-> c.Default,
     MapQueryParams |-> Nil]

RECURSIVE extractPathParams(_, _, _)
\* extractPathParams: the ParamData of the path params a, and the scope once
\* their variables are named.
extractPathParams(a, serviceType, sc) ==
    IF a = <<>>
    THEN [data |-> <<>>, scope |-> sc]
    ELSE LET u == Unique(sc, Head(a).Name)
             rest == extractPathParams(Tail(a), serviceType, u.scope)
         IN  [data |-> <<pathParamData(Head(a), serviceType, u.name)>> \o rest.data,
              scope |-> rest.scope]

\* The ParamData of the query param c.
queryParamData(c, serviceType, varn) ==
    [Name |-> c.Name,
     AttributeName |-> c.Name,
     FieldName |-> IF ~IsObject(serviceType.Type) THEN "" ELSE c.Name,
     VarName |-> varn,
     Required |-> c.Required,
     Type |-> c.Type,
     TypeRef |-> [Star |-> ParamIsPrimitivePointer(c, TRUE), Type |-> c.Type],
     Pointer |-> ParamIsPrimitivePointer(c, TRUE),
     Slice |-> IsArray(c.Type),
     StringSlice |-> IsArray(c.Type) /\ c.Type[2] = Primitive("string"),
     Map |-> IsMap(c.Type),
     MapStringSlice |-> /\ IsMap(c.Type)
                        /\ c.Type[2] = Primitive("string")
                        /\ c.Type[3] = Array(Primitive("string")),
     Validate |-> RecursiveValidationCode(ParamAttribute(c), c.Required, FALSE,
                                          c.Default, varn),
     DefaultValue |-> c.Default,
     MapQueryParams |-> Nil]

RECURSIVE extractQueryParams(_, _, _)
\* extractQueryParams: the ParamData of the query params a.
extractQueryParams(a, serviceType, sc) ==
    IF a = <<>>
    THEN [data |-> <<>>, scope |-> sc]
    ELSE LET u == Unique(sc, Head(a).Name)
             rest == extractQueryParams(Tail(a), serviceType, u.scope)
         IN  [data |-> <<queryParamData(Head(a), serviceType, u.name)>> \o rest.data,
              scope |-> rest.scope]

\* The HeaderData of the header h.  When the service type is an object the
\* header attribute is the attribute of the service type with that name,
\* otherwise it is the service type itself.
headerData(h, serviceType, req, varn) ==
    LET obj == IsObject(serviceType.Type)
        hattr == IF obj THEN ParamAttribute(h) ELSE serviceType
        hdef == IF obj THEN h.Default ELSE FALSE
        required == IF obj THEN h.Required ELSE TRUE
        pointer == IF obj THEN ParamIsPrimitivePointer(h, req) ELSE FALSE
    IN  [Name |-> h.Name,
         AttributeName |-> h.Name,
         FieldName |-> IF obj THEN h.Name ELSE "",
         VarName |-> varn,
         TypeRef |-> [Star |-> pointer, Type |-> hattr.Type],
         Required |-> required,
         Pointer |-> pointer,
         Slice |-> IsArray(hattr.Type),
         StringSlice |-> IsArray(hattr.Type) /\ hattr.Type[2] = Primitive("string"),
         Type |-> hattr.Type,
         Validate |-> RecursiveValidationCode(hattr, required, FALSE, hdef, varn),
         DefaultValue |-> hdef]

RECURSIVE extractHeaders(_, _, _, _)
\* extractHeaders: the HeaderData of the headers a.
extractHeaders(a, serviceType, req, sc) ==
    IF a = <<>>
    THEN [data |-> <<>>, scope |-> sc]
    ELSE LET u == Unique(sc, Head(a).Name)
             rest == extractHeaders(Tail(a), serviceType, req, u.scope)
         IN  [data |-> <<headerData(Head(a), serviceType, req, u.name)>> \o rest.data,
              scope |-> rest.scope]

-----------------------------------------------------------------------------
(* analyze: the routes of the endpoint.                                    *)

\* Validation != nil: the attribute has a rule or required fields.
HasValidation(a) == a.Validation \/ a.Required # {}

\* The InitArgData of the wildcard arg of a route, whose variable is name.
pathInitArg(ep, arg, name) ==
    LET att == ParamNamed(ep, arg)
    IN  [Name |-> name,
         Ref |-> name,
         FieldName |-> arg,
         TypeRef |-> [Star |-> FALSE, Type |-> att.Type],
         Pointer |-> ParamIsPrimitivePointer(att, FALSE),
         Required |-> TRUE,
         DefaultValue |-> FALSE,
         Validate |-> IF HasValidation(ParamAttribute(att))
                      THEN RecursiveValidationCode(ParamAttribute(att), TRUE, FALSE,
                                                   FALSE, name)
                      ELSE {}]

RECURSIVE pathInitArgs(_, _, _)
\* The InitArgData of the wildcards params of a route.
pathInitArgs(ep, params, sc) ==
    IF params = <<>>
    THEN [data |-> <<>>, scope |-> sc]
    ELSE LET u == Unique(sc, Head(params))
             rest == pathInitArgs(ep, Tail(params), u.scope)
         IN  [data |-> <<pathInitArg(ep, Head(params), u.name)>> \o rest.data,
              scope |-> rest.scope]

\* The slice_conversion template: the conversion of an element of an array
\* param to a string, by the name of the type of the element.
sliceConversion(elem) ==
    LET name == IF elem[1] = "prim" THEN elem[2] ELSE elem[1]
    IN  CASE name = "string" -> <<"url.QueryEscape", "v">>
          [] name = "int" -> <<"strconv.FormatInt", "int64(v)">>
          [] name = "boolean" -> <<"strconv.FormatBool", "v">>
          [] name = "bytes" -> <<"url.QueryEscape", "string(v)">>
          [] OTHER -> <<"url.QueryEscape", "fmt.Sprintf(%v, v)">>

\* The pathInitT template executed on the constructor arguments args, the
\* object of the path params of the endpoint and the path format pf: the
\* slices it declares, each with the conversion of its elements, and the
\* string it returns, either the literal format or the format with its values,
\* in their order.  The type of the argument at place i is read from the path
\* param at place i.
pathInitCode(args, pathParamsObj, pf) ==
    LET isArray(i) == pathParamsObj[i].Type[1] = "array"
    IN  IF args = <<>>
        THEN [Slices |-> <<>>, Sprintf |-> FALSE, Format |-> pf, Values |-> <<>>]
        ELSE [Slices |->
                 LET at == SelectSeq([i \in 1..Len(args) |-> i], isArray)
                 IN  [k \in 1..Len(at) |->
                         [Of |-> args[at[k]].Name,
                          Conversion |-> sliceConversion(pathParamsObj[at[k]].Type[2])]],
              Sprintf |-> TRUE,
              Format |-> pf,
              Values |-> [i \in 1..Len(args) |->
                            IF isArray(i)
                            THEN <<"strings.Join", args[i].Name, ", ">>
                            ELSE <<"value", args[i].Name>>]]

\* The path format of a full path: each wildcard replaced by "/%v" (the
\* segments that are not wildcards are left out of the path).
PathFormat(rpath) == [k \in 1..Len(rpath) |-> "/%v"]

RECURSIVE analyzeRoutes(_, _, _, _)
\* The RouteData of the full paths rpaths of the routes of the endpoint, i
\* counting the paths seen so far: the path constructor of the first is named
\* without suffix, the others with the suffix i + 1.
analyzeRoutes(ep, rpaths, i, sc) ==
    IF rpaths = <<>>
    THEN [data |-> <<>>, scope |-> sc]
    ELSE LET args == pathInitArgs(ep, Head(rpaths), sc)
             init == [Name |-> <<"Path", IF i > 0 THEN i + 1 ELSE 0>>,
                      ServerArgs |-> args.data,
                      ClientArgs |-> args.data,
                      ServerCode |-> pathInitCode(args.data, PathParams(ep),
                                                  PathFormat(Head(rpaths))),
                      ClientCode |-> pathInitCode(args.data, PathParams(ep),
                                                  PathFormat(Head(rpaths)))]
             rest == analyzeRoutes(ep, Tail(rpaths), i + 1, args.scope)
         IN  [data |-> <<[Path |-> Head(rpaths), PathInit |-> init]>> \o rest.data,
              scope |-> rest.scope]

-----------------------------------------------------------------------------
(* buildPayloadData.                                                       *)

\* The ParamData of the query string mapped to the payload (MapParams).
mapQueryParamData(ep) ==
    LET n == ep.MapQueryParams[1]
        whole == n = ""
        name == IF whole THEN "query" ELSE n
        required == IF whole THEN FALSE ELSE ep.MapAttr.Required
        pType == IF whole THEN ep.Payload.Type ELSE ep.MapAttr.Type
    IN  [Name |-> name,
         AttributeName |-> "",
         FieldName |-> IF whole THEN "" ELSE name,
         VarName |-> <<name, 0>>,
         Required |-> required,
         Type |-> pType,
         TypeRef |-> [Star |-> FALSE, Type |-> pType],
         Pointer |-> FALSE,
         Slice |-> FALSE,
         StringSlice |-> FALSE,
         Map |-> IsMap(ep.Payload.Type),
         MapStringSlice |-> FALSE,
         Validate |-> RecursiveValidationCode(ep.Payload, required, FALSE, FALSE,
                                              <<name, 0>>),
         DefaultValue |-> IF whole THEN FALSE ELSE ep.MapAttr.Default,
         MapQueryParams |-> ep.MapQueryParams]

\* The query params of the request when the mapped query string replaces
\* those of the design.
requestQueryDataOnly(ep, queryData) ==
    IF ep.MapQueryParams # Nil
    THEN <<mapQueryParamData(ep)>>
    ELSE queryData

\* The query params of the request: those of the design, then the mapped
\* query string if any.
requestQueryData(ep, queryData) ==
    IF ep.MapQueryParams # Nil
    THEN Append(queryData, mapQueryParamData(ep))
    ELSE queryData

\* mustValidate as the loops of buildPayloadData compute it.
mustValidateOf(paramsData, queryData, headersData) ==
    \/ \E i \in 1..Len(paramsData) :
          paramsData[i].Validate # {} \/ needConversion(paramsData[i].Type)
    \/ \E i \in 1..Len(queryData) :
          \/ queryData[i].Validate # {}
          \/ queryData[i].Required
          \/ needConversion(queryData[i].Type)
    \/ \E i \in 1..Len(headersData) :
          \/ headersData[i].Validate # {}
          \/ headersData[i].Required
          \/ needConversion(headersData[i].Type)

\* The constructor argument of a path param.
pathParamArg(ep, p) ==
    [Name |-> p.VarName,
     Ref |-> p.VarName,
     FieldName |-> p.FieldName,
     TypeRef |-> p.TypeRef,
     \* special case for path params that are not pointers (because path
     \* params never are) but assigned to fields that are.
     Pointer |-> /\ ~p.Required
                 /\ ~p.Pointer
                 /\ IsObject(ep.Payload.Type)
                 /\ ParamIsPrimitivePointer(ParamNamed(ep, p.Name), TRUE),
     Required |-> p.Required,
     DefaultValue |-> FALSE,
     Validate |-> p.Validate]

\* The constructor argument of a query param or of a header.
paramArg(p) ==
    [Name |-> p.VarName,
     Ref |-> p.VarName,
     FieldName |-> p.FieldName,
     TypeRef |-> p.TypeRef,
     Pointer |-> FALSE,
     Required |-> p.Required,
     DefaultValue |-> p.DefaultValue,
     Validate |-> p.Validate]

\* The constructor argument that is the request body, with its validation.
bodyArg(body, vcode) ==
    [Name |-> <<"body", 0>>,
     Ref |-> <<IF IsObject(body.Type) THEN "&body" ELSE "body", 0>>,
     FieldName |-> "",
     TypeRef |-> [Star |-> FALSE, Type |-> body.Type],
     Pointer |-> FALSE,
     Required |-> TRUE,
     DefaultValue |-> FALSE,
     Validate |-> vcode]

\* The code of a payload, result or error constructor: the transform of the
\* body to the target, or of the first param to a target that is an array or a map;
\* empty if there is nothing to transform or if the transform fails (the
\* error is printed and let go).
initCode(body, target, params) ==
    IF body # Empty
    THEN GoTypeTransform(body, target).code
    ELSE IF (IsArray(target) \/ IsMap(target)) /\ params # <<>>
    THEN GoTypeTransform(params[1].Type, target).code
    ELSE <<>>

\* What a function prints and the transform functions it appends to
\* sd.ServerTransformHelpers and sd.ClientTransformHelpers.  A line printed
\* is the error of a call of GoTypeTransform: <<call, source, target>>, call
\* naming the call that returned the error.
NoEffects == [out |-> <<>>, server |-> {}, client |-> {}]

Then(e1, e2) ==
    [out |-> e1.out \o e2.out,
     server |-> e1.server \cup e2.server,
     client |-> e1.client \cup e2.client]

\* codegen.AppendHelpers on both lists of the service data.
AppendHelpers(rd, e) ==
    [rd EXCEPT !.ServerTransformHelpers = @ \cup e.server,
               !.ClientTransformHelpers = @ \cup e.client]

\* The helpers GoTypeTransform returns with the code: the transform functions
\* of the user types the source makes use of below its root, none when the
\* transform fails.
TransformHelpers(source, target) ==
    IF GoTypeTransform(source, target).err
    THEN {}
    ELSE LET below == IF source[1] = "user"
                      THEN collectUserTypes(registry[source[2]].Type, TRUE, {source[2]}).cbs
                      ELSE collectUserTypes(source, FALSE, {}).cbs
         IN  {below[i][2] : i \in DOMAIN below}

\* The source of the transform of a constructor: the body, or the first param
\* when there is no body and the target is an array or a map; nil when no
\* transform is made.
initSource(body, target, params) ==
    IF body # Empty
    THEN <<body>>
    ELSE IF (IsArray(target) \/ IsMap(target)) /\ params # <<>>
    THEN <<params[1].Type>>
    ELSE Nil

\* The transform of buildBodyType: the error is printed, and the helpers are
\* appended to the list of the side whether the transform failed or not.
bodyTypeEffects(body, att, req, svr) ==
    IF body.Type # Empty /\ ((svr /\ ~req) \/ (~svr /\ req)) /\ att.Type # Empty
       /\ needInit(body.Type)
    THEN [out |-> IF GoTypeTransform(att.Type, body.Type).err
                  THEN <<<<"body", att.Type, body.Type>>>> ELSE <<>>,
          server |-> IF svr THEN TransformHelpers(att.Type, body.Type) ELSE {},
          client |-> IF svr THEN {} ELSE TransformHelpers(att.Type, body.Type)]
    ELSE NoEffects

\* The transforms of the payload constructor in buildPayloadData: the server
\* transform, then the client transform.  The helpers of each are appended
\* if err == nil after it; err is assigned by both calls, and what it holds
\* after the second is printed.
payloadInitEffects(ep) ==
    LET src == initSource(ep.Body.Type, ep.Payload.Type, ep.Params)
    IN  IF ~needInit(ep.Payload.Type) \/ src = Nil
        THEN NoEffects
        ELSE LET server == GoTypeTransform(src[1], ep.Payload.Type)
                 err1 == IF server.err
                         THEN <<<<"server", src[1], ep.Payload.Type>>>> ELSE Nil
                 client == GoTypeTransform(src[1], ep.Payload.Type)
                 err2 == IF client.err
                         THEN <<<<"client", src[1], ep.Payload.Type>>>> ELSE Nil
             IN  [out |-> err2,
                  server |-> IF err1 = Nil
                             THEN TransformHelpers(src[1], ep.Payload.Type) ELSE {},
                  client |-> IF err2 = Nil
                             THEN TransformHelpers(src[1], ep.Payload.Type) ELSE {}]

\* What buildPayloadData prints and appends: the request body types are
\* built before the payload constructor.
payloadEffects(ep) ==
    Then(bodyTypeEffects(ep.Body, ep.Payload, TRUE, TRUE),
    Then(bodyTypeEffects(ep.Body, ep.Payload, TRUE, FALSE),
         payloadInitEffects(ep)))

\* The transform of a result or error constructor: one call, whose helpers go
\* to the client list if err == nil and whose error is printed.
clientInitEffects(call, body, target, params) ==
    LET src == initSource(body, target, params)
    IN  IF ~needInit(target) \/ src = Nil
        THEN NoEffects
        ELSE [out |-> IF GoTypeTransform(src[1], target).err
                      THEN <<<<call, src[1], target>>>> ELSE <<>>,
              server |-> {},
              client |-> TransformHelpers(src[1], target)]

RECURSIVE resultEffects(_, _, _)
\* What buildResultData prints and appends for the responses vs: for each
\* response built, the result constructor and then the body types.
resultEffects(vs, notag, ep) ==
    IF vs = <<>>
    THEN NoEffects
    ELSE IF Head(vs).Tag[1] = "" /\ notag
    THEN resultEffects(Tail(vs), notag, ep)
    ELSE Then(clientInitEffects("result", Head(vs).Body.Type, ep.Result.Type,
                                QueryParams(ep)),
         Then(bodyTypeEffects(Head(vs).Body, ep.Result, FALSE, TRUE),
         Then(bodyTypeEffects(Head(vs).Body, ep.Result, FALSE, FALSE),
              resultEffects(Tail(vs), notag \/ Head(vs).Tag[1] = "", ep))))

RECURSIVE errorsEffects(_, _)
\* What buildErrorsData prints and appends for the errors vs: for each error,
\* the error constructor and then the body types.
errorsEffects(vs, ep) ==
    IF vs = <<>>
    THEN NoEffects
    ELSE Then(clientInitEffects("error", Head(vs).Body.Type, Head(vs).Type,
                                QueryParams(ep)),
         Then(bodyTypeEffects(Head(vs).Body, AttributeOf(Head(vs).Type), FALSE, TRUE),
         Then(bodyTypeEffects(Head(vs).Body, AttributeOf(Head(vs).Type), FALSE, FALSE),
              errorsEffects(Tail(vs), ep))))

\* The payload constructor (PayloadInit), nil unless the payload type is or
\* makes use of user types.
payloadInit(ep, request) ==
    IF ~needInit(ep.Payload.Type)
    THEN Nil
    ELSE LET body == ep.Body
             validated == body.Type[1] = "user" /\ HasValidation(registry[body.Type[2]])
             svcode == IF validated
                       THEN RecursiveValidationCode(registry[body.Type[2]], TRUE,
                                                    FALSE, FALSE, "body")
                       ELSE {}
             cvcode == IF validated
                       THEN RecursiveValidationCode(registry[body.Type[2]], TRUE,
                                                    FALSE, TRUE, "body")
                       ELSE {}
             args == [i \in 1..Len(request.PathParams) |->
                         pathParamArg(ep, request.PathParams[i])]
                     \o [i \in 1..Len(request.QueryParams) |->
                         paramArg(request.QueryParams[i])]
                     \o [i \in 1..Len(request.Headers) |->
                         paramArg(request.Headers[i])]
         IN  <<[ServerArgs |-> (IF body.Type # Empty THEN <<bodyArg(body, svcode)>>
                                ELSE <<>>) \o args,
                ClientArgs |-> (IF body.Type # Empty THEN <<bodyArg(body, cvcode)>>
                                ELSE <<>>) \o args,
                ReturnIsStruct |-> IsObject(ep.Payload.Type),
                ServerCode |-> initCode(ep.Body.Type, ep.Payload.Type, ep.Params),
                ClientCode |-> initCode(ep.Body.Type, ep.Payload.Type, ep.Params)]>>

\* buildPayloadData returns the data structure used to describe the endpoint
\* payload including the HTTP request details: data is the PayloadData, rd
\* the ServiceData with the body type name recorded, scope the name scope.
buildPayloadData(ep, rd, sc) ==
    LET serverBodyData == buildBodyType(ep.Body, ep.Payload, TRUE, TRUE, FALSE)
        clientBodyData == buildBodyType(ep.Body, ep.Payload, TRUE, FALSE, FALSE)
        params == extractPathParams(PathParams(ep), ep.Payload, sc)
        query == extractQueryParams(QueryParams(ep), ep.Payload, params.scope)
        headers == extractHeaders(ep.Headers, ep.Payload, TRUE, query.scope)
        queryData == requestQueryData(ep, query.data)
        request == [PathParams |-> params.data,
                    QueryParams |-> queryData,
                    Headers |-> headers.data,
                    ServerBody |-> serverBodyData,
                    ClientBody |-> clientBodyData,
                    MustValidate |-> mustValidateOf(params.data, queryData, headers.data)]
        init == payloadInit(ep, request)
        returnValue ==
            IF init # Nil THEN ""
            ELSE IF ep.Params # <<>> THEN ep.Params[1].Name
            ELSE IF ep.Headers # <<>> THEN ep.Headers[1].Name
            ELSE IF ep.MapQueryParams = <<"">> THEN "query"
            ELSE ""
    IN  [data |-> [Request |-> request,
                   PayloadInit |-> init,
                   DecoderReturnValue |-> returnValue],
         rd |-> AppendHelpers(IF serverBodyData # Nil
                              THEN [rd EXCEPT
                                      !.ServerTypeNames = @ \cup {serverBodyData[1].Name},
                                      !.ClientTypeNames = @ \cup {serverBodyData[1].Name}]
                              ELSE rd,
                              payloadEffects(ep)),
         scope |-> headers.scope,
         out |-> payloadEffects(ep).out]

-----------------------------------------------------------------------------
(* buildResultData.  A response of the design is a record                  *)
(*   [Tag, StatusCode, Headers, Body], Tag the pair <<name, value>>.       *)

\* The constructor argument that is a response body.
responseBodyArg(body) ==
    LET validated == body.Type[1] = "user" /\ HasValidation(registry[body.Type[2]])
    IN  bodyArg(body, IF validated
                      THEN RecursiveValidationCode(registry[body.Type[2]], TRUE, FALSE,
                                                   FALSE, "body")
                      ELSE {})

\* The constructor argument of a response header.
headerArg(h) ==
    [Name |-> h.VarName,
     Ref |-> h.VarName,
     FieldName |-> h.FieldName,
     TypeRef |-> h.TypeRef,
     Pointer |-> FALSE,
     Required |-> FALSE,
     DefaultValue |-> FALSE,
     Validate |-> h.Validate]

\* buildResponseResultInit builds the constructor to transform a client
\* response to a result type: data is the InitData, scope the name scope once
\* the headers are named.
buildResponseResultInit(resp, ep, sc) ==
    LET headers == extractHeaders(resp.Headers, ep.Result, FALSE, sc)
    IN  [data |-> [ClientArgs |->
                      (IF resp.Body.Type # Empty THEN <<responseBodyArg(resp.Body)>>
                       ELSE <<>>)
                      \o [i \in 1..Len(headers.data) |-> headerArg(headers.data[i])],
                   ReturnIsStruct |-> IsObject(ep.Result.Type),
                   ClientCode |-> initCode(resp.Body.Type, ep.Result.Type, QueryParams(ep))],
         scope |-> headers.scope]

\* The ResponseData of the response v.
responseData(v, ep, rd, sc) ==
    With(IF needInit(ep.Result.Type)
         THEN buildResponseResultInit(v, ep, sc)
         ELSE [data |-> Nil, scope |-> sc],
    LAMBDA init :
    With(extractHeaders(v.Headers, ep.Result, FALSE, init.scope),
    LAMBDA headers :
    With(buildBodyType(v.Body, ep.Result, FALSE, FALSE, ep.Viewed),
    LAMBDA clientBodyData :
        [data |-> [StatusCode |-> v.StatusCode,
                   Headers |-> headers.data,
                   ErrorHeader |-> "",
                   ServerBody |-> buildBodyType(v.Body, ep.Result, FALSE, TRUE, ep.Viewed),
                   ClientBody |-> clientBodyData,
                   ResultInit |-> IF init.data = Nil THEN Nil ELSE <<init.data>>,
                   TagName |-> v.Tag[1],
                   TagValue |-> v.Tag[2],
                   MustValidate |->
                       \E i \in 1..Len(headers.data) :
                           \/ headers.data[i].Validate # {}
                           \/ headers.data[i].Required
                           \/ needConversion(headers.data[i].Type),
                   ViewedResult |-> ep.Viewed],
         rd |-> IF clientBodyData # Nil
                THEN [rd EXCEPT
                        !.ServerTypeNames = @ \cup {clientBodyData[1].Name},
                        !.ClientTypeNames = @ \cup {clientBodyData[1].Name}]
                ELSE rd,
         scope |-> headers.scope])))

RECURSIVE buildResponses(_, _, _, _, _, _)
\* The loop of buildResultData over the responses vs, i the index of the
\* first of them and notag the index of the response with no tag kept so far
\* (-1 if none): a second response with no tag is skipped.
buildResponses(vs, i, notag, ep, rd, sc) ==
    IF vs = <<>>
    THEN [data |-> <<>>, notag |-> notag, rd |-> rd, scope |-> sc]
    ELSE IF Head(vs).Tag[1] = "" /\ notag > -1
    THEN buildResponses(Tail(vs), i + 1, notag, ep, rd, sc)
    ELSE With(responseData(Head(vs), ep, rd, sc),
         LAMBDA r :
         With(buildResponses(Tail(vs), i + 1,
                             IF Head(vs).Tag[1] = "" THEN i ELSE notag,
                             ep, r.rd, r.scope),
         LAMBDA rest :
             [data |-> <<r.data>> \o rest.data, notag |-> rest.notag,
              rd |-> rest.rd, scope |-> rest.scope]))

\* The responses in the order they were built.
tagLastKept(responses, notag) == responses

\* The responses with the one that has no tag, at index notag, made the last.
tagLast(responses, notag) ==
    IF notag >= 0 /\ notag < Len(responses) - 1
    THEN [responses EXCEPT ![notag + 1] = responses[Len(responses)],
                           ![Len(responses)] = responses[notag + 1]]
    ELSE responses

\* buildResultData builds the result data for the given service endpoint; the
\* response with no tag is made the last.
buildResultData(ep, rd, sc) ==
    With(buildResponses(ep.Responses, 0, -1, ep, rd, sc),
    LAMBDA r :
        [data |-> [IsStruct |-> IsObject(ep.Result.Type),
                   Responses |-> tagLast(r.data, r.notag)],
         rd |-> AppendHelpers(r.rd, resultEffects(ep.Responses, FALSE, ep)),
         scope |-> r.scope,
         out |-> resultEffects(ep.Responses, FALSE, ep).out])

-----------------------------------------------------------------------------
(* buildErrorsData.  An error of the design is a record                    *)
(*   [Name, Ref, Type, StatusCode, Headers, Body]: Ref stands for the      *)
(* reference to the error type, a number that tells its place in the       *)
(* order of the references.                                                *)

\* The ErrorData of the error v.
errorData(v, ep, rd, sc) ==
    With(IF needInit(v.Type)
         THEN extractHeaders(v.Headers, AttributeOf(v.Type), FALSE, sc)
         ELSE [data |-> <<>>, scope |-> sc],
    LAMBDA initHeaders :
    With(extractHeaders(v.Headers, AttributeOf(v.Type), FALSE, initHeaders.scope),
    LAMBDA headers :
    With(buildBodyType(v.Body, AttributeOf(v.Type), FALSE, FALSE, FALSE),
    LAMBDA clientBodyData :
        [data |-> [Name |-> v.Name,
                   Ref |-> v.Ref,
                   Response |->
                      [StatusCode |-> v.StatusCode,
                       Headers |-> headers.data,
                       ErrorHeader |-> v.Name,
                       ServerBody |-> buildBodyType(v.Body, AttributeOf(v.Type),
                                                    FALSE, TRUE, FALSE),
                       ClientBody |-> clientBodyData,
                       ResultInit |->
                          IF needInit(v.Type)
                          THEN <<[ClientArgs |->
                                    (IF v.Body.Type # Empty
                                     THEN <<bodyArg(v.Body, {})>> ELSE <<>>)
                                    \o [i \in 1..Len(initHeaders.data) |->
                                           headerArg(initHeaders.data[i])],
                                  ReturnIsStruct |-> v.Body.Type # Empty
                                                     /\ IsObject(v.Body.Type),
                                  ClientCode |->
                                     initCode(v.Body.Type, v.Type, QueryParams(ep))]>>
                          ELSE Nil,
                       TagName |-> "",
                       TagValue |-> "",
                       MustValidate |-> FALSE,
                       ViewedResult |-> FALSE]],
         rd |-> IF clientBodyData # Nil
                THEN [rd EXCEPT
                        !.ClientTypeNames = @ \cup {clientBodyData[1].Name},
                        !.ServerTypeNames = @ \cup {clientBodyData[1].Name}]
                ELSE rd,
         scope |-> headers.scope])))

RECURSIVE errorDatas(_, _, _, _)
\* The first loop of buildErrorsData, over the errors vs.
errorDatas(vs, ep, rd, sc) ==
    IF vs = <<>>
    THEN [data |-> <<>>, rd |-> rd, scope |-> sc]
    ELSE With(errorData(Head(vs), ep, rd, sc),
         LAMBDA r :
         With(errorDatas(Tail(vs), ep, r.rd, r.scope),
         LAMBDA rest :
             [data |-> <<r.data>> \o rest.data, rd |-> rest.rd,
              scope |-> rest.scope]))

RECURSIVE byRef(_, _)
\* The errors es in the order of the sorted references refs, those of one
\* reference in the order of their declaration.
byRef(es, refs) ==
    IF refs = {}
    THEN <<>>
    ELSE LET k == CHOOSE x \in refs : \A y \in refs : x <= y
         IN  SelectSeq(es, LAMBDA x : x.Ref = k) \o byRef(es, refs \ {k})

RECURSIVE groupErrorsApart(_, _)
\* The second loop of buildErrorsData without the search of the group of the
\* status code: each error starts a group.
groupErrorsApart(es, vals) ==
    IF es = <<>>
    THEN vals
    ELSE groupErrorsApart(Tail(es),
                          Append(vals, [StatusCode |-> Head(es).Response.StatusCode,
                                        Errors |-> <<Head(es)>>]))

RECURSIVE groupErrors(_, _)
\* The second loop of buildErrorsData: each error joins the group of its
\* status code, a new group at the end if there is none.
groupErrors(es, vals) ==
    IF es = <<>>
    THEN vals
    ELSE LET x == Head(es)
             found == {i \in 1..Len(vals) : vals[i].StatusCode = x.Response.StatusCode}
         IN  groupErrors(Tail(es),
                IF found # {}
                THEN LET g == CHOOSE i \in found : \A j \in found : i <= j
                     IN  [vals EXCEPT ![g].Errors = Append(@, x)]
                ELSE Append(vals, [StatusCode |-> x.Response.StatusCode,
                                   Errors |-> <<x>>]))

\* buildErrorsData: the errors of the endpoint grouped by status code.
buildErrorsData(ep, rd, sc) ==
    With(errorDatas(ep.HTTPErrors, ep, rd, sc),
    LAMBDA r :
        [data |-> groupErrors(byRef(r.data, {r.data[i].Ref : i \in 1..Len(r.data)}), <<>>),
         rd |-> AppendHelpers(r.rd, errorsEffects(ep.HTTPErrors, ep)),
         scope |-> r.scope,
         out |-> errorsEffects(ep.HTTPErrors, ep).out])

-----------------------------------------------------------------------------
(* analyze, step by step, for one endpoint.                                *)

\* The user types of the bodies of the endpoint, recorded (the last loop of
\* analyze).
collectAttributeTypes(ep, rd) ==
    LET rd1 == recordAll(collectUserTypes(ep.Body.Type, FALSE, {}).cbs, TRUE, FALSE, rd)
        rd2 == collectBodies([i \in 1..Len(ep.Responses) |-> ep.Responses[i].Body], rd1)
    IN  collectBodies([i \in 1..Len(ep.HTTPErrors) |-> ep.HTTPErrors[i].Body], rd2)

\* The ServiceData analyze starts from.
NewServiceData ==
    [ServerTypeNames |-> {},
     ClientTypeNames |-> {},
     ServerBodyAttributeTypes |-> <<>>,
     ClientBodyAttributeTypes |-> <<>>,
     ServerTransformHelpers |-> {},
     ClientTransformHelpers |-> {}]

InitAnalysis ==
    /\ pc = "routes"
    /\ scope = <<>>
    /\ routes = <<>>
    /\ payload = Nil
    /\ result = Nil
    /\ errors = <<>>
    /\ sd = NewServiceData
    /\ stdout = <<>>

AnalyzeRoutes ==
    /\ pc = "routes"
    /\ With(analyzeRoutes(endpoint, endpoint.Routes, 0, scope),
            LAMBDA r : routes' = r.data /\ scope' = r.scope)
    /\ pc' = "payload"
    /\ UNCHANGED <<payload, result, errors, sd, stdout, designVars, typeVars, otherVars>>

BuildPayloadData ==
    /\ pc = "payload"
    /\ With(buildPayloadData(endpoint, sd, scope),
            LAMBDA r : /\ payload' = <<r.data>>
                       /\ sd' = r.rd
                       /\ scope' = r.scope
                       /\ stdout' = stdout \o r.out)
    /\ pc' = "result"
    /\ UNCHANGED <<routes, result, errors, designVars, typeVars, otherVars>>

BuildResultData ==
    /\ pc = "result"
    /\ With(buildResultData(endpoint, sd, scope),
            LAMBDA r : /\ result' = <<r.data>>
                       /\ sd' = r.rd
                       /\ scope' = r.scope
                       /\ stdout' = stdout \o r.out)
    /\ pc' = "errors"
    /\ UNCHANGED <<routes, payload, errors, designVars, typeVars, otherVars>>

BuildErrorsData ==
    /\ pc = "errors"
    /\ With(buildErrorsData(endpoint, sd, scope),
            LAMBDA r : /\ errors' = r.data
                       /\ sd' = r.rd
                       /\ scope' = r.scope
                       /\ stdout' = stdout \o r.out)
    /\ pc' = "types"
    /\ UNCHANGED <<routes, payload, result, designVars, typeVars, otherVars>>

CollectAttributeTypes ==
    /\ pc = "types"
    /\ sd' = collectAttributeTypes(endpoint, sd)
    /\ pc' = "done"
    /\ UNCHANGED <<scope, routes, payload, result, errors, stdout, designVars, typeVars, otherVars>>

NextAnalysis ==
    \/ AnalyzeRoutes
    \/ BuildPayloadData
    \/ BuildResultData
    \/ BuildErrorsData
    \/ CollectAttributeTypes

-----------------------------------------------------------------------------
(* The designs analyze is run on.                                          *)

\* The success response of an endpoint whose response body is body.
OKResponse(body) ==
    [Tag |-> <<"", "">>, StatusCode |-> 200, Headers |-> <<>>, Body |-> body]

\* An endpoint with no param and no header: the request body is the payload, the
\* response body is the result.
BodyEndpoint(reqBody, respBody, viewed, errs) ==
    [Payload |-> reqBody,
     Result |-> respBody,
     Body |-> reqBody,
     Params |-> <<>>,
     Headers |-> <<>>,
     MapQueryParams |-> Nil,
     MapAttr |-> Nil,
     Routes |-> << <<>> >>,
     Responses |-> <<OKResponse(respBody)>>,
     HTTPErrors |-> errs,
     Viewed |-> viewed]

\* A user type with one string field, which is required.
LeafType == Attribute(Object(<<Primitive("string")>>), {1}, {}, FALSE)

\* The design with no user type in use.
NoRegistry == [u \in UserTypeIds |-> LeafType]

\* The endpoint with no body, no param and no header.
NoEndpoint == BodyEndpoint(AttributeOf(Empty), AttributeOf(Empty), FALSE, <<>>)

\* The types of the fields of the body user type.
FieldTypes == {Primitive("string"), Primitive("bytes"), UserType("U2")}

\* The attributes of the body user type U1: an object of up to MaxFields
\* fields, any of them required, any of them with a default value.
BodyTypes ==
    {Attribute(Object(fs), rq, df, val) :
        fs \in SeqsUpTo(FieldTypes, MaxFields) \ {<<>>},
        rq \in SUBSET (1..MaxFields),
        df \in SUBSET (1..MaxFields),
        val \in BOOLEAN}

\* The registries of the designs whose bodies use U1: the required fields and
\* the fields with a default value are fields of the object.
BodyRegistries ==
    {[U1 |-> a, U2 |-> LeafType] :
        a \in {x \in BodyTypes : x.Required \cup x.Default \subseteq 1..Len(x.Type[2])}}

\* The body attributes of the designs: no body, a user type, an array of
\* strings with and without a validation rule.
Bodies ==
    {AttributeOf(Empty), AttributeOf(UserType("U1"))}
    \cup {Attribute(Array(Primitive("string")), {}, {}, val) : val \in BOOLEAN}

\* An error of the design whose type and response body are the type t.
ErrorOf(name, ref, status, t) ==
    [Name |-> name, Ref |-> ref, Type |-> t, StatusCode |-> status,
     Headers |-> <<>>, Body |-> AttributeOf(t)]

\* The endpoints with bodies only: a request and a response body, or errors.
\* The request and the response have the same body unless one has none.
BodyEndpoints ==
    {BodyEndpoint(x[1], x[2], viewed, <<>>) :
        x \in {y \in Bodies \X Bodies :
                 y[1] = y[2] \/ Empty \in {y[1].Type, y[2].Type}},
        viewed \in BOOLEAN}
    \cup {BodyEndpoint(AttributeOf(Empty), AttributeOf(Empty), FALSE, errs) :
            errs \in {<<ErrorOf("not_found", 2, 404, UserType("U1"))>>,
                      <<ErrorOf("not_found", 2, 404, UserType("U1")),
                        ErrorOf("bad_request", 1, 400, UserType("U2")),
                        ErrorOf("gone", 3, 404, Primitive("string"))>>}}

\* Whether the user type U1 is part of the design of the endpoint.
UsesUserType(ep) ==
    \/ ep.Body.Type[1] = "user"
    \/ ep.Result.Type[1] = "user"
    \/ ep.HTTPErrors # <<>>

InitBody ==
    /\ endpoint \in {ep \in BodyEndpoints : ep.Viewed => ep.Result.Type[1] = "user"}
    /\ registry \in IF UsesUserType(endpoint) THEN BodyRegistries ELSE {NoRegistry}
    /\ dt = Empty
    /\ calls = {}
    /\ initResult = FALSE
    /\ convResult = FALSE
    /\ InitAnalysis
    /\ InitOther

SpecBody == InitBody /\ [][NextAnalysis]_vars

\* The types of the bodies, payloads and results of the designs whose bodies
\* are declared apart from the payload and the result.
TransformTypes ==
    {UserType("U1"), UserType("U2"), Array(Primitive("string")),
     Array(Primitive("int")), Map(Primitive("string"), Primitive("string"))}

\* The user types of those designs: objects of one or two fields.
TransformRegistries ==
    {[U1 |-> a, U2 |-> b] :
        a \in {LeafType, Attribute(Object(<<Primitive("string"), Primitive("int")>>),
                                   {1}, {}, FALSE)},
        b \in {LeafType, Attribute(Object(<<Primitive("int")>>), {}, {}, FALSE)}}

\* An endpoint whose request body is declared apart from its payload, and
\* whose response body is declared apart from its result.
TransformEndpoint(ptype, body, rtype, respBody) ==
    [Payload |-> AttributeOf(ptype),
     Result |-> AttributeOf(rtype),
     Body |-> AttributeOf(body),
     Params |-> <<>>,
     Headers |-> <<>>,
     MapQueryParams |-> Nil,
     MapAttr |-> Nil,
     Routes |-> << <<>> >>,
     Responses |-> <<OKResponse(AttributeOf(respBody))>>,
     HTTPErrors |-> <<>>,
     Viewed |-> FALSE]

InitTransform ==
    /\ \E ptype \in {UserType("U1"), Array(Primitive("string"))},
          rtype \in {UserType("U1"), Array(Primitive("string"))},
          body \in TransformTypes \cup {Empty}, respBody \in TransformTypes \cup {Empty} :
          endpoint = TransformEndpoint(ptype, body, rtype, respBody)
    /\ registry \in TransformRegistries
    /\ dt = Empty
    /\ calls = {}
    /\ initResult = FALSE
    /\ convResult = FALSE
    /\ InitAnalysis
    /\ InitOther

SpecTransform == InitTransform /\ [][NextAnalysis]_vars

\* The names of the params and headers, in the order of their declaration.
ParamNames == <<"a", "b", "c", "d">>

\* A param or header of the design before it is named: where it is bound
\* (Loc), its type, whether it is required, has a default value and carries
\* a validation rule.  A required attribute has no use for a default value;
\* the validation rules are those of strings (a pattern, a length).
Slots ==
    {x \in [Loc : {"path", "query", "header"},
            Type : {Primitive("string"), Primitive("int")},
            Required : BOOLEAN,
            Default : BOOLEAN,
            Validation : BOOLEAN] :
        /\ ~(x.Required /\ x.Default)
        /\ x.Validation => x.Type = Primitive("string")}

\* The params or headers of the slots bound at one of the locations locs.
Bound(slots, locs) ==
    LET at == SelectSeq([i \in 1..Len(slots) |-> i], LAMBDA i : slots[i].Loc \in locs)
    IN  [k \in 1..Len(at) |->
            [Name |-> ParamNames[at[k]],
             Type |-> slots[at[k]].Type,
             Required |-> slots[at[k]].Required,
             Default |-> slots[at[k]].Default,
             Validation |-> slots[at[k]].Validation]]

\* The payload attribute the query string is mapped to by MapParams("m").
MapAttrs ==
    {[Name |-> "m", Type |-> Map(Primitive("string"), Primitive("string")),
      Required |-> rq, Default |-> FALSE, Validation |-> FALSE] : rq \in BOOLEAN}

\* An endpoint whose payload is the user type U1, with the params and headers
\* of the slots, the query string mapped as mqp tells and the request body
\* body.
ParamEndpoint(slots, mqp, mattr, body) ==
    [Payload |-> AttributeOf(UserType("U1")),
     Result |-> AttributeOf(Empty),
     Body |-> body,
     Params |-> Bound(slots, {"path", "query"}),
     Headers |-> Bound(slots, {"header"}),
     MapQueryParams |-> mqp,
     MapAttr |-> mattr,
     Routes |-> << [i \in 1..Len(Bound(slots, {"path"})) |->
                      Bound(slots, {"path"})[i].Name] >>,
     Responses |-> <<OKResponse(AttributeOf(Empty))>>,
     HTTPErrors |-> <<>>,
     Viewed |-> FALSE]

\* An endpoint whose payload is a map, the whole of it mapped to the query
\* string by MapParams().
MapEndpoint(val) ==
    [Payload |-> Attribute(Map(Primitive("string"), Primitive("string")), {}, {}, val),
     Result |-> AttributeOf(Empty),
     Body |-> AttributeOf(Empty),
     Params |-> <<>>,
     Headers |-> <<>>,
     MapQueryParams |-> <<"">>,
     MapAttr |-> Nil,
     Routes |-> << <<>> >>,
     Responses |-> <<OKResponse(AttributeOf(Empty))>>,
     HTTPErrors |-> <<>>,
     Viewed |-> FALSE]

\* The endpoints with the params and headers of the slots: with no request
\* body; with a single param or header at most, also with a request body and
\* with the query string mapped to an attribute; with none, also with the
\* query string mapped to the whole payload.
ParamEndpoints(slots) ==
    {ParamEndpoint(slots, Nil, Nil, AttributeOf(Empty))}
    \cup (IF Len(slots) <= 1
          THEN {ParamEndpoint(slots, Nil, Nil, AttributeOf(UserType("U2")))}
               \cup {ParamEndpoint(slots, <<"m">>, mattr, AttributeOf(Empty)) :
                        mattr \in MapAttrs}
          ELSE {})
    \cup (IF slots = <<>> THEN {MapEndpoint(val) : val \in BOOLEAN} ELSE {})

\* The payload user type of an endpoint with params and headers: an object
\* with one field per param, header and mapped attribute.
PayloadType(ep) ==
    LET fields == ep.Params \o ep.Headers
                  \o (IF ep.MapAttr # Nil THEN <<ep.MapAttr>> ELSE <<>>)
    IN  Attribute(Object([i \in 1..Len(fields) |-> fields[i].Type]),
                  {i \in 1..Len(fields) : fields[i].Required},
                  {i \in 1..Len(fields) : fields[i].Default},
                  FALSE)

InitPayload ==
    /\ \E slots \in SeqsUpTo(Slots, MaxParams) : endpoint \in ParamEndpoints(slots)
    /\ registry \in {[U1 |-> PayloadType(endpoint), U2 |-> b] :
                        b \in IF endpoint.Body.Type[1] = "user"
                              THEN {LeafType,
                                    Attribute(Object(<<Primitive("string")>>), {}, {}, TRUE),
                                    Attribute(Object(<<Primitive("string")>>), {}, {}, FALSE)}
                              ELSE {LeafType}}
    /\ dt = Empty
    /\ calls = {}
    /\ initResult = FALSE
    /\ convResult = FALSE
    /\ InitAnalysis
    /\ InitOther

SpecPayload == InitPayload /\ [][NextAnalysis]_vars

-----------------------------------------------------------------------------
(* The specification of the type predicates: a data type is drawn, then    *)
(* each predicate is applied to it.                                        *)

InitTypes ==
    /\ dt \in DataTypes
    /\ calls = {}
    /\ initResult = FALSE
    /\ convResult = FALSE
    /\ endpoint = NoEndpoint
    /\ registry = NoRegistry
    /\ InitAnalysis
    /\ InitOther

CallNeedInit ==
    /\ "needInit" \notin calls
    /\ initResult' = needInit(dt)
    /\ calls' = calls \cup {"needInit"}
    /\ UNCHANGED <<dt, convResult, designVars, analysisVars, otherVars>>

CallNeedConversion ==
    /\ "needConversion" \notin calls
    /\ convResult' = needConversion(dt)
    /\ calls' = calls \cup {"needConversion"}
    /\ UNCHANGED <<dt, initResult, designVars, analysisVars, otherVars>>

NextTypes == CallNeedInit \/ CallNeedConversion

SpecTypes == InitTypes /\ [][NextTypes]_vars

-----------------------------------------------------------------------------
(* The claims about the type predicates, checked under SpecTypes.          *)

RECURSIVE Closure(_)
\* The types a type is made of: itself, the element type of an array, the key
\* and element types of a map, the field types of an object, recursively.  The
\* attribute of a user type is not part of it.
Closure(t) ==
    {t} \cup
    IF t = Empty THEN {}
    ELSE CASE t[1] = "array" -> Closure(t[2])
           [] t[1] = "map" -> Closure(t[2]) \cup Closure(t[3])
           [] t[1] = "object" -> UNION {Closure(t[2][i]) : i \in 1..Len(t[2])}
           [] OTHER -> {}

\* C5: needInit(t) is true if and only if the closure of t (array elements,
\* map keys and elements, object fields) holds at least one user type; it is
\* false for the primitives and for Empty.
C5_NeedInitIffUserType ==
    "needInit" \in calls =>
        /\ initResult = (\E s \in Closure(dt) : s[1] = "user")
        /\ (dt = Empty \/ dt[1] = "prim") => ~initResult

\* C5, witness: needInit found a user type two levels down, in a field of an
\* object that is the element of an array.
C5_Witness ==
    /\ "needInit" \in calls
    /\ dt # Empty
    /\ dt[1] = "array"
    /\ dt[2][1] = "object"
    /\ initResult

\* C6: needConversion(t) is true for every primitive kind but string, bytes and
\* any; for an array it is needConversion of the element type; for a map it is
\* true iff the key type or the element type needs conversion; it is false for
\* Empty.
C6_NeedConversion ==
    "needConversion" \in calls =>
        /\ dt = Empty => ~convResult
        /\ (dt # Empty /\ dt[1] = "prim") =>
               convResult = (dt[2] \notin {"string", "bytes", "any"})
        /\ (dt # Empty /\ dt[1] = "array") =>
               convResult = needConversion(dt[2])
        /\ (dt # Empty /\ dt[1] = "map") =>
               convResult = (needConversion(dt[2]) \/ needConversion(dt[3]))

\* C6, witness: a map needs conversion because of its key type alone.
C6_Witness ==
    /\ "needConversion" \in calls
    /\ dt = Map(Primitive("int"), Array(Primitive("bytes")))
    /\ convResult

-----------------------------------------------------------------------------
(* The claims about the body types, checked under SpecBody.                *)

\* The TypeData a pointer holds, as a set: empty for nil.
Held(td) == {td[i] : i \in 1..Len(td)}

\* The ResponseData built so far: those of the result, then those of the
\* errors.
ResponsesBuilt ==
    (IF result = Nil THEN {}
     ELSE {result[1].Responses[i] : i \in 1..Len(result[1].Responses)})
    \cup UNION {{errors[g].Errors[j].Response : j \in 1..Len(errors[g].Errors)} :
                    g \in 1..Len(errors)}

\* The body types built for encoding: the request body of the client and the
\* response bodies of the server.
EncodingBodies ==
    (IF payload = Nil THEN {} ELSE Held(payload[1].Request.ClientBody))
    \cup UNION {Held(r.ServerBody) : r \in ResponsesBuilt}

\* The body types built for decoding: the request body of the server and the
\* response bodies of the client.
DecodingBodies ==
    (IF payload = Nil THEN {} ELSE Held(payload[1].Request.ServerBody))
    \cup UNION {Held(r.ClientBody) : r \in ResponsesBuilt}

\* The fields of the struct definition of a body type, none if the body is not
\* a user type.
FieldsOf(td) == IF td.Def = Nil THEN {} ELSE 1..Len(td.Def[1])

\* C1: in an encoding context (client request body, server response body) the
\* body type is not generated with pointers for all fields: a required
\* primitive field is held by value.
C1_EncodingBodiesByValue ==
    \A td \in EncodingBodies : \A i \in FieldsOf(td) :
        (PointerKind(td.Def[1][i].Type) /\ i \in registry[td.Name].Required)
            => ~td.Def[1][i].Pointer

\* C1, the input that fails: the response body of the server is a user type
\* with a required string field, and the field is held by pointer.
C1_FailingInput ==
    /\ pc = "done"
    /\ endpoint.Result.Type = UserType("U1")
    /\ registry["U1"] = Attribute(Object(<<Primitive("string")>>), {1}, {}, FALSE)
    /\ result[1].Responses[1].ServerBody # Nil
    /\ result[1].Responses[1].ServerBody[1].Def[1][1].Pointer

AllPointers(td) ==
    \A i \in FieldsOf(td) : PointerKind(td.Def[1][i].Type) => td.Def[1][i].Pointer

\* The types of the user types used by the bodies that analyze recorded for
\* the unmarshaling side: the request ones of the server, the response ones of
\* the client.
DecodingAttributeTypes ==
    {sd.ServerBodyAttributeTypes[i] : i \in
        {j \in 1..Len(sd.ServerBodyAttributeTypes) :
            sd.ServerBodyAttributeTypes[j].Description = "request"}}
    \cup {sd.ClientBodyAttributeTypes[i] : i \in
        {j \in 1..Len(sd.ClientBodyAttributeTypes) :
            sd.ClientBodyAttributeTypes[j].Description = "response"}}

\* C3: the request body type used by server code and the response body type
\* used by client code, and the types analyze records for the user types they
\* use, are generated with pointers for all primitive fields, whatever the
\* required flag or the default value of the field.
C3_DecodingBodiesAllPointers ==
    \A td \in DecodingBodies \cup DecodingAttributeTypes : AllPointers(td)

\* C3, witness: the request body of the server and the response body of the
\* client hold a required string field with a default value by pointer, and
\* the type of a user type used by the request body was recorded.
C3_Witness ==
    /\ pc = "done"
    /\ endpoint.Body.Type = UserType("U1")
    /\ endpoint.Result.Type = UserType("U1")
    /\ registry["U1"].Type = Object(<<Primitive("string"), UserType("U2")>>)
    /\ registry["U1"].Required = {1}
    /\ registry["U1"].Default = {1}
    /\ payload[1].Request.ServerBody[1].Def[1][1].Pointer
    /\ result[1].Responses[1].ClientBody[1].Def[1][1].Pointer
    /\ \E td \in DecodingAttributeTypes : td.Name = "U2" /\ td.Def[1][1].Pointer

\* The design error of the given name.
ErrorNamed(n) ==
    CHOOSE v \in {endpoint.HTTPErrors[i] : i \in 1..Len(endpoint.HTTPErrors)} : v.Name = n

\* C4: buildBodyType returns nil when the body type is Empty, for every
\* combination of the request/response, server/client and viewed flags, and a
\* descriptor for every other body: this holds of the body types analyze
\* built and of every call on the bodies of the design.
C4_NilIffEmpty ==
    /\ payload # Nil =>
          /\ payload[1].Request.ServerBody = Nil <=> endpoint.Body.Type = Empty
          /\ payload[1].Request.ClientBody = Nil <=> endpoint.Body.Type = Empty
    /\ result # Nil =>
          \A i \in 1..Len(result[1].Responses) :
             /\ result[1].Responses[i].ServerBody = Nil
                   <=> endpoint.Responses[i].Body.Type = Empty
             /\ result[1].Responses[i].ClientBody = Nil
                   <=> endpoint.Responses[i].Body.Type = Empty
    /\ \A g \in 1..Len(errors) : \A j \in 1..Len(errors[g].Errors) :
          /\ errors[g].Errors[j].Response.ServerBody = Nil
                <=> ErrorNamed(errors[g].Errors[j].Name).Body.Type = Empty
          /\ errors[g].Errors[j].Response.ClientBody = Nil
                <=> ErrorNamed(errors[g].Errors[j].Name).Body.Type = Empty
    /\ \A req \in BOOLEAN, svr \in BOOLEAN, viewed \in BOOLEAN :
          /\ buildBodyType(endpoint.Body, endpoint.Payload, req, svr, viewed) = Nil
                <=> endpoint.Body.Type = Empty
          /\ buildBodyType(endpoint.Responses[1].Body, endpoint.Result, req, svr,
                           viewed) = Nil
                <=> endpoint.Responses[1].Body.Type = Empty

\* C4, witness: an endpoint with no request body and a response body built
\* from a viewed result: no request body type, a response body type.
C4_Witness ==
    /\ pc = "done"
    /\ endpoint.Body.Type = Empty
    /\ endpoint.Viewed
    /\ payload[1].Request.ServerBody = Nil
    /\ payload[1].Request.ClientBody = Nil
    /\ result[1].Responses[1].ServerBody # Nil
    /\ result[1].Responses[1].ClientBody # Nil

\* C10: encoding contexts never attach validation: a body type built for the
\* client request or the server response has an empty validation definition
\* and an empty validation call, whether the body is a user type or not, and
\* the argument of its constructor carries no validation code.
C10_EncodingNoValidation ==
    \A td \in EncodingBodies :
        /\ td.ValidateDef = {}
        /\ td.ValidateRef = {}
        /\ \A k \in 1..Len(td.Init) : \A a \in 1..Len(td.Init[k].Args) :
              td.Init[k].Args[a].Validate = {}

\* C10, the input that fails: the request body is an array of strings with a
\* validation rule, and the body type of the client calls the validation.
C10_FailingInput ==
    /\ pc = "done"
    /\ endpoint.Body = Attribute(Array(Primitive("string")), {}, {}, TRUE)
    /\ payload[1].Request.ClientBody[1].ValidateRef # {}

-----------------------------------------------------------------------------
(* The claims about the params of the request, checked under SpecPayload.  *)

\* The arguments of the path constructors of the routes, server and client.
PathInitArgs ==
    UNION {{routes[r].PathInit.ServerArgs[j] : j \in 1..Len(routes[r].PathInit.ServerArgs)}
           \cup {routes[r].PathInit.ClientArgs[j] :
                    j \in 1..Len(routes[r].PathInit.ClientArgs)} :
           r \in 1..Len(routes)}

\* The path params of the request built so far.
PathParamsBuilt ==
    IF payload = Nil THEN {}
    ELSE {payload[1].Request.PathParams[i] : i \in 1..Len(payload[1].Request.PathParams)}

C8_SingleMapParam ==
    (payload # Nil /\ endpoint.MapQueryParams # Nil) =>
        /\ Len(payload[1].Request.QueryParams) = 1
        /\ payload[1].Request.QueryParams[1].Name = endpoint.MapQueryParams[1]

\* C8, amended: when the query string is mapped to the payload, the query
\* params of the request are those of the design followed by one map param;
\* the map param is named "query" when the whole payload is mapped and after
\* the mapped attribute otherwise, and its MapQueryParams is the empty string
\* or the name of the attribute.  No other param has MapQueryParams set.
C8_MapParamLast ==
    payload # Nil =>
        LET q == payload[1].Request.QueryParams
            own == QueryParams(endpoint)
        IN  IF endpoint.MapQueryParams = Nil
            THEN /\ Len(q) = Len(own)
                 /\ \A i \in 1..Len(q) : q[i].MapQueryParams = Nil
            ELSE /\ Len(q) = Len(own) + 1
                 /\ \A i \in 1..Len(own) :
                       q[i].MapQueryParams = Nil /\ q[i].Name = own[i].Name
                 /\ q[Len(q)].MapQueryParams = endpoint.MapQueryParams
                 /\ q[Len(q)].Name = IF endpoint.MapQueryParams = <<"">>
                                     THEN "query"
                                     ELSE endpoint.MapQueryParams[1]

\* C8, witness: the query string is mapped to the attribute m of a payload
\* that has a query param of its own: the request has both.
C8_Witness ==
    /\ pc = "done"
    /\ endpoint.MapQueryParams = <<"m">>
    /\ Len(QueryParams(endpoint)) = 1
    /\ Len(payload[1].Request.QueryParams) = 2
    /\ payload[1].Request.QueryParams[2].Name = "m"

\* The request body requires validation: it carries a validation rule or
\* its user type has one or has required fields.
BodyRequiresValidation ==
    \/ endpoint.Body.Validation
    \/ endpoint.Body.Type[1] = "user" /\ HasValidation(registry[endpoint.Body.Type[2]])

\* The param or header requires validation: it has a validation rule, is
\* required or needs conversion from a string.
RequiresValidation(p) ==
    p.Validate # {} \/ p.Required \/ needConversion(p.Type)

\* C9: RequestData.MustValidate is true if and only if the request body or
\* at least one path param, query param or header requires validation.
C9_MustValidate ==
    payload # Nil =>
        LET rq == payload[1].Request
        IN  rq.MustValidate <=>
                \/ BodyRequiresValidation
                \/ \E i \in 1..Len(rq.PathParams) : RequiresValidation(rq.PathParams[i])
                \/ \E i \in 1..Len(rq.QueryParams) : RequiresValidation(rq.QueryParams[i])
                \/ \E i \in 1..Len(rq.Headers) : RequiresValidation(rq.Headers[i])

\* C9, the input that fails: the only thing of the request to validate is its
\* body, a user type with a validation rule, and MustValidate is false.
C9_FailingInput ==
    /\ pc = "done"
    /\ endpoint.Params = <<>>
    /\ endpoint.Headers = <<>>
    /\ endpoint.Body.Type = UserType("U2")
    /\ registry["U2"].Validation
    /\ ~payload[1].Request.MustValidate


-----------------------------------------------------------------------------
(* The path constructors of the routes.                                    *)

\* The types of the path params: scalars and arrays of each kind.
PathParamTypes ==
    {Primitive("string"), Primitive("int")} \cup {Array(Primitive(k)) : k \in Kinds}

\* The wildcards of a full path of a route over the params a and b.
RoutePaths == {<<>>, <<"a">>, <<"b">>, <<"a", "b">>, <<"b", "a">>}

\* An endpoint with the required params a and b of the types ta and tb and the
\* routes rts; a param that is a wildcard of no route is a query param.
PathEndpoint(ta, tb, rts) ==
    [Payload |-> AttributeOf(UserType("U1")),
     Result |-> AttributeOf(Empty),
     Body |-> AttributeOf(Empty),
     Params |-> <<[Name |-> "a", Type |-> ta, Required |-> TRUE, Default |-> FALSE,
                   Validation |-> FALSE],
                  [Name |-> "b", Type |-> tb, Required |-> TRUE, Default |-> FALSE,
                   Validation |-> FALSE]>>,
     Headers |-> <<>>,
     MapQueryParams |-> Nil,
     MapAttr |-> Nil,
     Routes |-> rts,
     Responses |-> <<OKResponse(AttributeOf(Empty))>>,
     HTTPErrors |-> <<>>,
     Viewed |-> FALSE]

InitPath ==
    /\ \E ta \in PathParamTypes, tb \in PathParamTypes,
          rts \in {<<r>> : r \in RoutePaths} \cup (RoutePaths \X RoutePaths) :
          endpoint = PathEndpoint(ta, tb, rts)
    /\ registry = [U1 |-> PayloadType(endpoint), U2 |-> LeafType]
    /\ dt = Empty
    /\ calls = {}
    /\ initResult = FALSE
    /\ convResult = FALSE
    /\ InitAnalysis
    /\ InitOther

SpecPath == InitPath /\ [][NextAnalysis]_vars

\* What the path constructor is to do with the wildcard arg whose variable
\* is name: an array is joined, anything else is given as it is.
PathValue(arg, name) ==
    IF ParamNamed(endpoint, arg).Type[1] = "array"
    THEN <<"strings.Join", name, ", ">>
    ELSE <<"value", name>>

\* C14: the path constructor of a route substitutes the params in their
\* order into the template whose wildcards are placeholders: with no param it
\* returns the template as it is; a scalar param is given as it is; an array
\* param is converted element by element, with the conversion of the kind of
\* its elements, and joined with ", ".
C14_PathConstructor ==
    \A r \in 1..Len(routes) :
        LET init == routes[r].PathInit
            code == init.ServerCode
            path == routes[r].Path
        IN  /\ init.ClientCode = code
            /\ Len(code.Format) = Len(path)
            /\ Len(code.Values) = Len(path)
            /\ path = <<>> => ~code.Sprintf
            /\ \A j \in 1..Len(path) :
                  /\ code.Values[j] = PathValue(path[j], init.ServerArgs[j].Name)
                  /\ ParamNamed(endpoint, path[j]).Type[1] = "array" =>
                        \E k \in 1..Len(code.Slices) :
                           /\ code.Slices[k].Of = init.ServerArgs[j].Name
                           /\ code.Slices[k].Conversion =
                                 sliceConversion(ParamNamed(endpoint, path[j]).Type[2])

\* An endpoint with the routes /{a}/{b} and /{b}, a an array of strings and b
\* a string: the constructor of the second path joins the slice of b, the
\* string, as the type of its argument is read from the first of the path
\* params, which is a.
C14_FailingInput ==
    /\ pc = "done"
    /\ endpoint.Routes = << <<"a", "b">>, <<"b">> >>
    /\ endpoint.Params[1].Type = Array(Primitive("string"))
    /\ endpoint.Params[2].Type = Primitive("string")
    /\ routes[2].PathInit.ServerCode.Values[1][1] = "strings.Join"
    /\ routes[2].PathInit.ServerCode.Slices # <<>>

-----------------------------------------------------------------------------
(* buildErrorsData on the endpoints with errors only.                      *)

\* The rank of the Go reference to the error type t among the sorted
\* references: "*U1" < "*U2" < "string".
ErrorTypeRef(t) ==
    CASE t = UserType("U1") -> 1
      [] t = UserType("U2") -> 2
      [] OTHER -> 3

\* The errors of a design, named after their place in the declaration: any
\* type and any status code for each.
ErrorDesigns ==
    UNION {[1..n -> {UserType("U1"), UserType("U2"), Primitive("string")}
                    \X {400, 404, 500}] : n \in 0..MaxErrors}

InitErrors ==
    /\ \E es \in ErrorDesigns :
          endpoint = BodyEndpoint(AttributeOf(Empty), AttributeOf(Empty), FALSE,
                        [i \in 1..Len(es) |->
                            ErrorOf(ParamNames[i], ErrorTypeRef(es[i][1]), es[i][2], es[i][1])])
    /\ registry = NoRegistry
    /\ dt = Empty
    /\ calls = {}
    /\ initResult = FALSE
    /\ convResult = FALSE
    /\ InitAnalysis
    /\ InitOther

SpecErrors == InitErrors /\ [][NextAnalysis]_vars

\* The place of the error named n in the declaration of the errors.
Declared(n) == CHOOSE i \in 1..Len(endpoint.HTTPErrors) : endpoint.HTTPErrors[i].Name = n

\* Whether the error x comes before the error y in the order of the sorted
\* references, then of the declaration.
ErrorBefore(x, y) ==
    \/ x.Ref < y.Ref
    \/ x.Ref = y.Ref /\ Declared(x.Name) < Declared(y.Name)

\* C13: buildErrorsData partitions the errors of the endpoint by status code:
\* every error is in exactly one group, every error of a group has the status
\* code of the group, no two groups share a status code, and the order is
\* fixed: the errors of a group, and the groups by their first error, follow
\* the sorted references then the declaration.
C13_ErrorsPartitioned ==
    pc \in {"types", "done"} =>
        /\ \A i \in 1..Len(endpoint.HTTPErrors) :
              Cardinality({<<g, j>> \in (1..Len(errors)) \X (1..MaxErrors + 1) :
                              /\ j <= Len(errors[g].Errors)
                              /\ errors[g].Errors[j].Name = endpoint.HTTPErrors[i].Name}) = 1
        /\ \A g \in 1..Len(errors) :
              /\ errors[g].Errors # <<>>
              /\ \A j \in 1..Len(errors[g].Errors) :
                    /\ errors[g].Errors[j].Response.StatusCode = errors[g].StatusCode
                    /\ \E i \in 1..Len(endpoint.HTTPErrors) :
                          /\ endpoint.HTTPErrors[i].Name = errors[g].Errors[j].Name
                          /\ endpoint.HTTPErrors[i].StatusCode = errors[g].StatusCode
              /\ \A j, k \in 1..Len(errors[g].Errors) :
                    j < k => ErrorBefore(errors[g].Errors[j], errors[g].Errors[k])
        /\ \A g, h \in 1..Len(errors) :
              g < h => /\ errors[g].StatusCode # errors[h].StatusCode
                       /\ ErrorBefore(errors[g].Errors[1], errors[h].Errors[1])

\* Three errors were grouped: the first declared and the last share a status
\* code and a group, in which the last comes first for its reference is
\* smaller; the second has a group to itself, the first of the two groups for
\* its reference is the smallest.
C13_Witness ==
    /\ pc = "done"
    /\ Len(endpoint.HTTPErrors) = 3
    /\ Len(errors) = 2
    /\ Len(errors[1].Errors) = 1 /\ errors[1].Errors[1].Name = ParamNames[2]
    /\ Len(errors[2].Errors) = 2
    /\ errors[2].Errors[1].Name = ParamNames[3]
    /\ errors[2].Errors[2].Name = ParamNames[1]

-----------------------------------------------------------------------------
(* ServicesData.Get.  A *ServiceData is a sequence, empty for nil, else     *)
(* holding the record [Service, Ptr]: the service analyzed and the identity *)
(* of the data, which is the number of the analyze call that allocated it.  *)

\* The analysis of no endpoint: the type predicates and analyze are idle.
IdleAnalysis ==
    /\ dt = Empty
    /\ calls = {}
    /\ initResult = FALSE
    /\ convResult = FALSE
    /\ endpoint = NoEndpoint
    /\ registry = NoRegistry
    /\ InitAnalysis

\* Get without the lookup of the stored data: analyze runs at every call.
GetAlways(d, services, name, n) ==
    IF name \notin services
    THEN [d |-> d, ok |-> FALSE, ret |-> <<>>, analyzed |-> n]
    ELSE [d |-> [d EXCEPT ![name] = <<[Service |-> name, Ptr |-> n + 1]>>],
          ok |-> FALSE,
          ret |-> <<[Service |-> name, Ptr |-> n + 1]>>,
          analyzed |-> n + 1]

\* ServicesData.Get on the map d, services the names of the services of the
\* design and n the number of analyze calls so far: d and n after the call,
\* the ok of the lookup and the value returned.
Get(d, services, name, n) ==
    IF d[name] # <<>>
    THEN [d |-> d, ok |-> TRUE, ret |-> d[name], analyzed |-> n]
    ELSE IF name \notin services
    THEN [d |-> d, ok |-> FALSE, ret |-> <<>>, analyzed |-> n]
    ELSE [d |-> [d EXCEPT ![name] = <<[Service |-> name, Ptr |-> n + 1]>>],
          ok |-> FALSE,
          ret |-> <<[Service |-> name, Ptr |-> n + 1]>>,
          analyzed |-> n + 1]

\* A call of Get with any name.
CallGet ==
    /\ \E name \in ServiceNames :
          With(Get(servicesData, rootServices, name, analyzeCalls),
          LAMBDA r :
             /\ getName' = name
             /\ servicesData' = r.d
             /\ getOk' = r.ok
             /\ getRet' = r.ret
             /\ analyzeCalls' = r.analyzed)
    /\ UNCHANGED <<rootServices, typeVars, designVars, analysisVars, svcVars, streamVars, convVars, walkVars,
                   genVars, dslVars>>

InitGet ==
    /\ rootServices \in SUBSET ServiceNames
    /\ servicesData = [n \in ServiceNames |-> <<>>]
    /\ getName = ""
    /\ getOk = FALSE
    /\ getRet = <<>>
    /\ analyzeCalls = 0
    /\ IdleAnalysis
    /\ IdleSvc
    /\ IdleStream
    /\ IdleConv
    /\ IdleWalk
    /\ IdleGen
    /\ IdleDsl

NextGet == CallGet

SpecGet == InitGet /\ [][NextGet]_vars

\* C12: Get(name) returns nil and stores nothing when no service has that
\* name; otherwise the first call computes the service data once, stores it
\* and returns it, and every later call returns the stored data as it is,
\* without computing, and leaves the store alone.
C12_GetComputesOnce ==
    [][ /\ getName' \notin rootServices =>
              /\ getRet' = <<>>
              /\ servicesData' = servicesData
              /\ analyzeCalls' = analyzeCalls
        /\ (getName' \in rootServices /\ servicesData[getName'] = <<>>) =>
              /\ analyzeCalls' = analyzeCalls + 1
              /\ servicesData'[getName'] # <<>>
              /\ getRet' = servicesData'[getName']
              /\ \A n \in ServiceNames \ {getName'} : servicesData'[n] = servicesData[n]
        /\ (getName' \in rootServices /\ servicesData[getName'] # <<>>) =>
              /\ getRet' = servicesData[getName']
              /\ servicesData' = servicesData
              /\ analyzeCalls' = analyzeCalls
      ]_vars

\* A later Get of a name found the data an earlier Get stored, after other
\* services were analyzed, and a Get of an unknown name stored nothing.
C12_Witness ==
    /\ getOk
    /\ getRet # <<>>
    /\ getRet = servicesData[getName]
    /\ getRet[1].Ptr < analyzeCalls
    /\ \E n \in ServiceNames \ rootServices : servicesData[n] = <<>>

-----------------------------------------------------------------------------
(* The generated conversions between a design type and an external type.   *)
(* A Go pointer is a sequence, empty for nil, else holding the value it     *)
(* points to; a struct is a record.  The fields of the design type are      *)
(* pointers unless they are required (bytes are never pointers); the fields *)
(* of StringT and ObjectFieldT are values, that of StringPointerT a pointer. *)

\* ConvertToStringT (ConvertStringCode, ConvertStringRequiredCode).
ConvertToStringT(t, required) ==
    IF required
    THEN [String |-> t.String]
    ELSE [String |-> IF t.String # Nil THEN t.String[1] ELSE ""]

\* ConvertToStringPointerT (ConvertStringPointerCode,
\* ConvertStringPointerRequiredCode).
ConvertToStringPointerT(t, required) ==
    IF required
    THEN [String |-> <<t.String>>]
    ELSE [String |-> t.String]

\* CreateFromStringT which leaves the field of t alone.
CreateFromStringTEmpty(v, required) ==
    IF required THEN [String |-> ""] ELSE [String |-> Nil]

\* CreateFromStringT (CreateStringCode, CreateStringRequiredCode): the value
\* t is set to.
CreateFromStringT(v, required) ==
    IF required
    THEN [String |-> v.String]
    ELSE [String |-> <<v.String>>]

\* CreateFromStringPointerT (CreateStringPointerCode,
\* CreateStringPointerRequiredCode): the value t is set to.
CreateFromStringPointerT(v, required) ==
    IF required
    THEN [String |-> IF v.String # Nil THEN v.String[1] ELSE ""]
    ELSE [String |-> v.String]

\* marshalObjectFieldToObjectFieldT which never dereferences a pointer.
marshalObjectFieldZero(v, required) ==
    IF required
    THEN [Bool |-> v.Bool, Int |-> v.Int, String |-> v.String, Bytes |-> v.Bytes]
    ELSE [Bool |-> FALSE, Int |-> 0, String |-> "", Bytes |-> v.Bytes]

\* marshalObjectFieldToObjectFieldT (ConvertObjectHelperCode,
\* ConvertObjectRequiredHelperCode), on the fields Bool, Int, String and
\* Bytes.
marshalObjectFieldToObjectFieldT(v, required) ==
    IF required
    THEN [Bool |-> v.Bool, Int |-> v.Int, String |-> v.String, Bytes |-> v.Bytes]
    ELSE [Bool |-> IF v.Bool # Nil THEN v.Bool[1] ELSE FALSE,
          Int |-> IF v.Int # Nil THEN v.Int[1] ELSE 0,
          String |-> IF v.String # Nil THEN v.String[1] ELSE "",
          Bytes |-> v.Bytes]

\* The values of a field of a kind, and the field that may be nil.
FieldValues(kind) ==
    CASE kind = "Bool" -> BOOLEAN
      [] kind = "Int" -> {0, 7}
      [] kind = "String" -> {"", "x"}
      [] kind = "Bytes" -> {<<>>, <<7>>}

Pointers(kind) == {Nil} \cup {<<x>> : x \in FieldValues(kind)}

\* The values of the design types StringType and ObjectField.
DesignValues(kind, required) ==
    IF kind = "StringType"
    THEN [String : IF required THEN FieldValues("String") ELSE Pointers("String")]
    ELSE IF required
    THEN [Bool : FieldValues("Bool"), Int : FieldValues("Int"),
          String : FieldValues("String"), Bytes : FieldValues("Bytes")]
    ELSE [Bool : Pointers("Bool"), Int : Pointers("Int"),
          String : Pointers("String"), Bytes : FieldValues("Bytes")]

InitConv ==
    /\ convKind \in {"StringType", "ObjectField"}
    /\ convRequired \in BOOLEAN
    /\ convPointer \in IF convKind = "StringType" THEN BOOLEAN ELSE {FALSE}
    /\ convT \in DesignValues(convKind, convRequired)
    /\ convV = [String |-> ""]
    /\ convBack = [String |-> ""]
    /\ convPc = "convert"
    /\ IdleAnalysis
    /\ IdleSvc
    /\ IdleStream
    /\ IdleGet
    /\ IdleWalk
    /\ IdleGen
    /\ IdleDsl

\* The design value is converted to the external type.
Convert ==
    /\ convPc = "convert"
    /\ convV' = IF convKind = "ObjectField"
                THEN marshalObjectFieldToObjectFieldT(convT, convRequired)
                ELSE IF convPointer
                THEN ConvertToStringPointerT(convT, convRequired)
                ELSE ConvertToStringT(convT, convRequired)
    /\ convPc' = IF convKind = "ObjectField" THEN "done" ELSE "create"
    /\ UNCHANGED <<convKind, convRequired, convPointer, convT, convBack,
                   typeVars, designVars, analysisVars, svcVars, streamVars, getVars, walkVars, genVars, dslVars>>

\* A value of the design type is created from the external value.
Create ==
    /\ convPc = "create"
    /\ convBack' = IF convPointer
                   THEN CreateFromStringPointerT(convV, convRequired)
                   ELSE CreateFromStringT(convV, convRequired)
    /\ convPc' = "done"
    /\ UNCHANGED <<convKind, convRequired, convPointer, convT, convV,
                   typeVars, designVars, analysisVars, svcVars, streamVars, getVars, walkVars, genVars, dslVars>>

NextConv == Convert \/ Create

SpecConv == InitConv /\ [][NextConv]_vars

\* C15: converting a value of an object type with primitive fields to the
\* external type, then creating a value from the result, gives back the
\* value of every required field.
C15_RoundTrip ==
    (convPc = "done" /\ convKind = "StringType" /\ convRequired) =>
        convBack.String = convT.String

\* The required string "x" went through StringPointerT, whose field is a
\* pointer, and came back.
C15_Witness ==
    /\ convPc = "done"
    /\ convKind = "StringType"
    /\ convRequired
    /\ convPointer
    /\ convT.String = "x"
    /\ convV.String = <<"x">>
    /\ convBack.String = "x"

\* The copy of a field from source to target: as it is when both or neither
\* are pointers, the value pointed to, or the zero value if nil, when only the
\* source is, the address when only the target is.
Copied(srcPointer, tgtPointer, src, tgt, zero) ==
    IF srcPointer = tgtPointer THEN tgt = src
    ELSE IF srcPointer THEN tgt = (IF src = Nil THEN zero ELSE src[1])
    ELSE tgt = <<src>>

\* C16: a field is copied to a field of the same primitive kind without
\* conversion: directly when both have the same representation; when the
\* source is a pointer and the target is not, dereferenced under a nil check
\* that leaves the zero value; when the source is a value and the target a
\* pointer, by its address.
C16_DirectCopy ==
    /\ (convPc \in {"create", "done"} /\ convKind = "StringType") =>
           Copied(~convRequired, convPointer, convT.String, convV.String, "")
    /\ (convPc = "done" /\ convKind = "StringType") =>
           Copied(convPointer, ~convRequired, convV.String, convBack.String, "")
    /\ (convPc = "done" /\ convKind = "ObjectField") =>
           /\ Copied(~convRequired, FALSE, convT.Bool, convV.Bool, FALSE)
           /\ Copied(~convRequired, FALSE, convT.Int, convV.Int, 0)
           /\ Copied(~convRequired, FALSE, convT.String, convV.String, "")
           /\ Copied(FALSE, FALSE, convT.Bytes, convV.Bytes, <<>>)

\* A nil field was converted to the zero value of StringT, whose address was
\* taken to create the design value.
C16_Witness ==
    /\ convPc = "done"
    /\ convKind = "StringType"
    /\ ~convRequired
    /\ ~convPointer
    /\ convT.String = Nil
    /\ convV.String = ""
    /\ convBack.String = <<"">>

-----------------------------------------------------------------------------
(* The traversals of a type, call by call.  A pending call is a record      *)
(* [Type, Given]: the type it is given and, for collectUserTypes, whether   *)
(* it is given the map seen.  The calls are made depth first: the calls a   *)
(* call makes are pending before those that were.                           *)

\* The calls on the types ts, each given seen or not.
Pending(ts, given) == [i \in 1..Len(ts) |-> [Type |-> ts[i], Given |-> given]]

\* The types a type is made of: the fields of an object, the element of an
\* array, the key and the element of a map.
Parts(t) ==
    CASE t[1] = "object" -> t[2]
      [] t[1] = "array" -> <<t[2]>>
      [] t[1] = "map" -> <<t[2], t[3]>>
      [] OTHER -> <<>>

\* A call of collectUserTypes that does not look the user type up in seen.
collectUserTypesUnseen(f, seen) ==
    IF f.Type[1] = "user"
    THEN [push |-> Pending(<<registry[f.Type[2]].Type>>, TRUE),
          seen |-> seen \cup {f.Type[2]},
          cbs |-> <<f.Type[2]>>, stop |-> FALSE, ret |-> FALSE]
    ELSE [push |-> Pending(Parts(f.Type), f.Given), seen |-> seen,
          cbs |-> <<>>, stop |-> FALSE, ret |-> FALSE]

\* A call of collectUserTypes: the calls it makes, the map seen after it and
\* the user type it gives to the callback.  A call that is not given seen
\* makes a map of its own, which only the calls made for a user type are
\* given.
collectUserTypesCall(f, seen) ==
    IF f.Type[1] = "user"
    THEN LET sm == IF f.Given THEN seen ELSE {}
         IN  IF f.Type[2] \in sm
             THEN [push |-> <<>>, seen |-> seen, cbs |-> <<>>,
                   stop |-> FALSE, ret |-> FALSE]
             ELSE [push |-> Pending(<<registry[f.Type[2]].Type>>, TRUE),
                   seen |-> sm \cup {f.Type[2]},
                   cbs |-> <<f.Type[2]>>, stop |-> FALSE, ret |-> FALSE]
    ELSE [push |-> Pending(Parts(f.Type), f.Given), seen |-> seen,
          cbs |-> <<>>, stop |-> FALSE, ret |-> FALSE]

\* A call of needInit: a user type makes it, and every call that waits for
\* it, return true; a primitive returns false and the next field, key or
\* element is looked at.
needInitCall(f, seen) ==
    IF f.Type[1] = "user"
    THEN [push |-> <<>>, seen |-> seen, cbs |-> <<>>, stop |-> TRUE, ret |-> TRUE]
    ELSE [push |-> Pending(Parts(f.Type), FALSE), seen |-> seen, cbs |-> <<>>,
          stop |-> FALSE, ret |-> FALSE]

\* A call of needConversion: arrays and maps are looked into; a primitive
\* other than a string, bytes or any, an object and a user type make it, and
\* every call that waits for it, return true.
needConversionCall(f, seen) ==
    IF f.Type[1] \in {"array", "map"}
    THEN [push |-> Pending(Parts(f.Type), FALSE), seen |-> seen, cbs |-> <<>>,
          stop |-> FALSE, ret |-> FALSE]
    ELSE IF f.Type[1] = "empty"
            \/ (f.Type[1] = "prim" /\ f.Type[2] \in {"string", "any", "bytes"})
    THEN [push |-> <<>>, seen |-> seen, cbs |-> <<>>, stop |-> FALSE, ret |-> FALSE]
    ELSE [push |-> <<>>, seen |-> seen, cbs |-> <<>>, stop |-> TRUE, ret |-> TRUE]

\* The next pending call is made.
WalkCall ==
    /\ walkPc = "run"
    /\ walkStack # <<>>
    /\ Len(walkStack) <= MaxDepth
    /\ With(CASE walkFn = "collectUserTypes" -> collectUserTypesCall(Head(walkStack), walkSeen)
              [] walkFn = "needInit" -> needInitCall(Head(walkStack), walkSeen)
              [] walkFn = "needConversion" -> needConversionCall(Head(walkStack), walkSeen),
       LAMBDA r :
          /\ walkStack' = IF r.stop THEN <<>> ELSE r.push \o Tail(walkStack)
          /\ walkSeen' = r.seen
          /\ walkCbs' = walkCbs \o r.cbs
          /\ walkRet' = r.ret)
    /\ UNCHANGED <<walkFn, walkPc, typeVars, designVars, analysisVars, svcVars, streamVars, getVars, convVars, genVars, dslVars>>

\* No call is pending: the function returns.
WalkReturn ==
    /\ walkPc = "run"
    /\ walkStack = <<>>
    /\ walkPc' = "done"
    /\ UNCHANGED <<walkFn, walkStack, walkSeen, walkCbs, walkRet,
                   typeVars, designVars, analysisVars, svcVars, streamVars, getVars, convVars, genVars, dslVars>>

\* The user types of the type graphs: U1 refers to itself, directly, through
\* an array or a map, or to U2; U2 is a leaf, refers to U1 or is an array of
\* itself.
WalkRegistries ==
    {[U1 |-> AttributeOf(a), U2 |-> AttributeOf(b)] :
        a \in {Object(<<UserType("U1")>>),
               Object(<<Primitive("string"), Array(UserType("U1"))>>),
               Object(<<Map(Primitive("string"), UserType("U1")), UserType("U2")>>),
               Object(<<UserType("U2")>>)},
        b \in {Object(<<Primitive("string")>>),
               Object(<<UserType("U1"), UserType("U2")>>),
               Array(UserType("U2"))}}

\* The types the functions are called on.
WalkTypes ==
    {Empty, Primitive("int"), UserType("U1"), UserType("U2"),
     Array(UserType("U1")),
     Map(Primitive("string"), Array(Primitive("string"))),
     Object(<<UserType("U1"), UserType("U2")>>),
     Object(<<Primitive("string"), Map(UserType("U2"), UserType("U1"))>>)}

InitWalk ==
    /\ registry \in WalkRegistries
    /\ dt \in WalkTypes
    /\ walkFn \in {"collectUserTypes", "needInit", "needConversion"}
    /\ walkStack = Pending(<<dt>>, FALSE)
    /\ walkSeen = {}
    /\ walkCbs = <<>>
    /\ walkRet = FALSE
    /\ walkPc = "run"
    /\ calls = {}
    /\ initResult = FALSE
    /\ convResult = FALSE
    /\ endpoint = NoEndpoint
    /\ InitAnalysis
    /\ IdleGet
    /\ IdleConv
    /\ IdleGen
    /\ IdleDsl
    /\ IdleSvc
    /\ IdleStream

NextWalk == WalkCall \/ WalkReturn

SpecWalk == InitWalk /\ [][NextWalk]_vars

\* A function that was called runs until it returns.
SpecWalkFair == SpecWalk /\ WF_vars(NextWalk)

\* C17: collectUserTypes, needInit and needConversion terminate on every
\* type graph, a user type that refers to itself, directly or through
\* objects, arrays or maps, included.
C17_Terminates == <>(walkPc = "done")

\* collectUserTypes returned on an array of the user type U1 whose attribute
\* holds an array of U1: U1 was given to the callback once.
C17_Witness ==
    /\ walkPc = "done"
    /\ walkFn = "collectUserTypes"
    /\ dt = Array(UserType("U1"))
    /\ registry["U1"].Type = Object(<<Primitive("string"), Array(UserType("U1"))>>)
    /\ walkCbs = <<"U1">>
    /\ walkSeen = {"U1"}

-----------------------------------------------------------------------------
(* The JSON schema generator.  Generate runs statement by statement; a call *)
(* that can fail either succeeds or returns an error.                       *)

schemaFile == "schema/schema.json"

controllerFile == "schema/schema.go"

\* The files of the directory JSONSchemaDir() and a file outside of it.
SchemaDirFiles == {schemaFile, controllerFile, "schema/other"}

AllFiles == SchemaDirFiles \cup {"main.go"}

\* The elements of a list of files.
FileSet(files) == {files[i] : i \in 1..Len(files)}

\* Generator.Cleanup on the list files and the disk d: the files of the list
\* are removed, the list is nil.
Cleanup(files, d) == [genfiles |-> <<>>, disk |-> d \ FileSet(files)]

\* Generate is called: the schema directory is removed and made anew.
GenerateStart ==
    /\ genPc = "idle"
    /\ disk' = disk \ SchemaDirFiles
    /\ genPc' = "json"
    /\ UNCHANGED <<genfiles, genRet, typeVars, designVars, analysisVars, svcVars, streamVars, getVars, convVars, walkVars, dslVars>>

\* js, err := s.JSON()
GenerateJSON ==
    /\ genPc = "json"
    /\ \/ genPc' = "write" /\ genRet' = genRet
       \/ genPc' = "idle" /\ genRet' = "JSON"
    /\ UNCHANGED <<genfiles, disk, typeVars, designVars, analysisVars, svcVars, streamVars, getVars, convVars,
                   walkVars, dslVars>>

\* ioutil.WriteFile(schemaFile, js, 0755), then the file is recorded.
GenerateWriteSchema ==
    /\ genPc = "write"
    /\ \/ /\ disk' = disk \cup {schemaFile}
          /\ genfiles' = Append(genfiles, schemaFile)
          /\ genPc' = "header"
          /\ genRet' = genRet
       \/ /\ genPc' = "idle"
          /\ genRet' = "WriteFile"
          /\ UNCHANGED <<disk, genfiles>>
    /\ UNCHANGED <<typeVars, designVars, analysisVars, svcVars, streamVars, getVars, convVars, walkVars, dslVars>>

\* gg := codegen.NewGoGenerator(controllerFile); gg.WriteHeader(...): the
\* header is written to the controller file.
GenerateWriteHeader ==
    /\ genPc = "header"
    /\ disk' = disk \cup {controllerFile}
    /\ genPc' = "execute"
    /\ UNCHANGED <<genfiles, genRet, typeVars, designVars, analysisVars, svcVars, streamVars, getVars, convVars,
                   walkVars, dslVars>>

\* err = tmpl.Execute(gg, data), with g.Cleanup() if it fails.
GenerateExecute ==
    /\ genPc = "execute"
    /\ \/ genPc' = "format" /\ UNCHANGED <<genfiles, disk, genRet>>
       \/ /\ genfiles' = Cleanup(genfiles, disk).genfiles
          /\ disk' = Cleanup(genfiles, disk).disk
          /\ genPc' = "idle"
          /\ genRet' = "Execute"
    /\ UNCHANGED <<typeVars, designVars, analysisVars, svcVars, streamVars, getVars, convVars, walkVars, dslVars>>

\* gg.FormatCode(), with g.Cleanup() if it fails; else the two files are
\* recorded and returned.
GenerateFormat ==
    /\ genPc = "format"
    /\ \/ /\ genfiles' = <<controllerFile, schemaFile>>
          /\ genPc' = "idle"
          /\ genRet' = "ok"
          /\ disk' = disk
       \/ /\ genfiles' = Cleanup(genfiles, disk).genfiles
          /\ disk' = Cleanup(genfiles, disk).disk
          /\ genPc' = "idle"
          /\ genRet' = "FormatCode"
    /\ UNCHANGED <<typeVars, designVars, analysisVars, svcVars, streamVars, getVars, convVars, walkVars, dslVars>>

\* The caller of the generator calls Cleanup.
CallCleanup ==
    /\ genPc = "idle"
    /\ genfiles' = Cleanup(genfiles, disk).genfiles
    /\ disk' = Cleanup(genfiles, disk).disk
    /\ UNCHANGED <<genPc, genRet, typeVars, designVars, analysisVars, svcVars, streamVars, getVars, convVars,
                   walkVars, dslVars>>

\* A new generator, with any files on the disk.
InitGen ==
    /\ genfiles = <<>>
    /\ disk \in SUBSET AllFiles
    /\ genPc = "idle"
    /\ genRet = "none"
    /\ IdleAnalysis
    /\ IdleSvc
    /\ IdleStream
    /\ IdleGet
    /\ IdleConv
    /\ IdleWalk
    /\ IdleDsl

NextGen ==
    \/ GenerateStart
    \/ GenerateJSON
    \/ GenerateWriteSchema
    \/ GenerateWriteHeader
    \/ GenerateExecute
    \/ GenerateFormat
    \/ CallCleanup

SpecGen == InitGen /\ [][NextGen]_vars

\* C18: Cleanup removes the files generated during the last invocation of
\* Generate and empties the list; when Generate fails after it started to
\* write (in the execution of the template or the formatting) and calls
\* Cleanup, neither the schema file nor the controller file remains.
C18_FailureLeavesNoFile ==
    /\ (genPc = "idle" /\ genRet \in {"Execute", "FormatCode"}) =>
           /\ genfiles = <<>>
           /\ schemaFile \notin disk
           /\ controllerFile \notin disk
    /\ (genPc = "idle" /\ genRet = "ok" /\ genfiles = <<>>) =>
           /\ schemaFile \notin disk
           /\ controllerFile \notin disk

\* The first Generate of a generator failed in FormatCode and called
\* Cleanup: the list is empty, the schema file is gone, the controller file
\* is still there.
C18_FailingInput ==
    /\ genPc = "idle"
    /\ genRet = "FormatCode"
    /\ genfiles = <<>>
    /\ schemaFile \notin disk
    /\ controllerFile \in disk

-----------------------------------------------------------------------------
(* The Payload function of the DSL.  An argument is <<"func", f>>, f the    *)
(* DSL function, <<"user", id>>, <<"prim", kind>>, <<"desc", text>> or      *)
(* <<"invalid">>.  A DSL function is a record [Attributes, Required]: the   *)
(* attributes it adds to the type it runs on and the attributes it makes    *)
(* required.  An attribute expression is a record [Type, Description,       *)
(* Required]; a user type is known by its identity, its fields are in       *)
(* dslTypes.                                                                *)

\* The DSL functions given to Payload.
DslFuncs ==
    {[Attributes |-> <<"extra">>, Required |-> {}],
     [Attributes |-> <<>>, Required |-> {"left"}]}

\* design.Dup of the user type id: a user type of a new identity, new, with
\* a copy of the fields.
Dup(types, id, new) == [types EXCEPT ![new] = types[id]]

\* eval.Execute(fn, att) on the DSL function f: the attributes are added to
\* the object att refers to, that of the user type if it is one; the required
\* attributes are recorded in att.
Execute(f, att, types) ==
    [att |-> [att EXCEPT !.Required = @ \cup f.Required,
                         !.Type = IF @[1] = "object" THEN <<"object", @[2] \o f.Attributes>>
                                  ELSE @],
     types |-> IF att.Type[1] = "user"
               THEN [types EXCEPT ![att.Type[2]] = <<@[1] \o f.Attributes>>]
               ELSE types]

\* methodDSL that never duplicates the user type.
methodDSLShared(p, args, types, new) ==
    LET last == IF args # <<>> /\ args[Len(args)][1] = "func"
                THEN <<args[Len(args)][2]>> ELSE <<>>
        att == [Type |-> p, Description |-> "", Required |-> {}]
        run == IF last # <<>> THEN Execute(last[1], att, types)
               ELSE [att |-> att, types |-> types]
    IN  [att |-> <<run.att>>, types |-> run.types, errors |-> <<>>]

\* methodDSL on the first argument p and the others args, new the identity
\* design.Dup allocates: the attribute returned (nil or one), the user types
\* after the call and the errors reported.
methodDSL(p, args, types, new) ==
    IF p[1] \notin {"func", "user", "prim"}
    THEN [att |-> <<>>, types |-> types, errors |-> <<"invalid argument">>]
    ELSE IF p[1] = "user" /\ args = <<>>
    THEN [att |-> <<[Type |-> p, Description |-> "", Required |-> {}]>>,
          types |-> types, errors |-> <<>>]
    ELSE LET fn0 == IF p[1] = "func" THEN <<p[2]>> ELSE <<>>
             types1 == IF p[1] = "user" THEN Dup(types, p[2], new) ELSE types
             att0 == [Type |-> CASE p[1] = "func" -> <<"object", <<>>>>
                                 [] p[1] = "user" -> <<"user", new>>
                                 [] OTHER -> p,
                      Description |-> "",
                      Required |-> {}]
             last == IF args # <<>> /\ args[Len(args)][1] = "func"
                     THEN <<args[Len(args)][2]>> ELSE <<>>
             errs == IF last # <<>> /\ fn0 # <<>> THEN <<"invalid arguments">> ELSE <<>>
             fn == IF last # <<>> THEN last ELSE fn0
             att1 == IF args # <<>> /\ args[1][1] = "desc"
                     THEN [att0 EXCEPT !.Description = args[1][2]] ELSE att0
             run == IF fn # <<>> THEN Execute(fn[1], att1, types1)
                    ELSE [att |-> att1, types |-> types1]
         IN  [att |-> <<IF fn # <<>> /\ run.att.Type = <<"object", <<>>>>
                        THEN [run.att EXCEPT !.Type = Empty] ELSE run.att>>,
              types |-> run.types,
              errors |-> errs]

\* Payload(val, args...) evaluated in the context ctx: the payloads of the
\* methods and the user types after the call, and the errors reported.
Payload(ctx, val, args, methods, types, new) ==
    LET many == IF Len(args) > 2 THEN <<"too many arguments">> ELSE <<>>
    IN  IF ctx \notin MethodNames
        THEN [methods |-> methods, types |-> types,
              errors |-> many \o <<"incompatible DSL">>]
        ELSE With(methodDSL(val, args, types, new),
             LAMBDA r : [methods |-> [methods EXCEPT ![ctx] = r.att],
                         types |-> r.types,
                         errors |-> many \o r.errors])

\* The first arguments and the other arguments given to Payload.
PayloadVals ==
    {<<"func", f>> : f \in DslFuncs}
    \cup {<<"user", "Operands">>, <<"prim", "string">>, <<"invalid">>}

PayloadArgs ==
    {<<>>, <<<<"desc", "d">>>>}
    \cup {<<<<"func", f>>>> : f \in DslFuncs}
    \cup {<<<<"desc", "d">>, <<"func", [Attributes |-> <<"extra">>, Required |-> {}]>>>>,
          <<<<"desc", "d">>, <<"desc", "e">>,
            <<"func", [Attributes |-> <<"extra">>, Required |-> {}]>>>>}

\* The identity design.Dup allocates next; no call that duplicates a user
\* type is made once the identities are used up.
FreeIds == {u \in DupIds : dslTypes[u] = <<>>}

\* Payload is called in a method expression or in a service expression.
CallPayload ==
    /\ \E ctx \in MethodNames \cup {"service"}, val \in PayloadVals,
          args \in PayloadArgs :
          /\ FreeIds # {}
          /\ With(Payload(ctx, val, args, dslMethods, dslTypes,
                          IF "dup1" \in FreeIds THEN "dup1" ELSE "dup2"),
             LAMBDA r :
                /\ dslMethods' = r.methods
                /\ dslTypes' = r.types
                /\ dslErrors' = r.errors)
          /\ dslCtx' = ctx
          /\ dslVal' = val
          /\ dslArgs' = args
    /\ UNCHANGED <<typeVars, designVars, analysisVars, svcVars, streamVars, getVars, convVars, walkVars, genVars>>

InitDsl ==
    /\ IdleDsl
    /\ IdleAnalysis
    /\ IdleSvc
    /\ IdleStream
    /\ IdleGet
    /\ IdleConv
    /\ IdleWalk
    /\ IdleGen

NextDsl == CallPayload

SpecDsl == InitDsl /\ [][NextDsl]_vars

\* C19: a call of Payload outside a method expression, or with more than
\* three arguments, reports an error and neither sets nor changes the payload
\* of any method.
C19_RejectedCallKeepsPayloads ==
    [][(dslCtx' \notin MethodNames \/ Len(dslArgs') > 2) =>
          /\ dslErrors' # <<>>
          /\ dslMethods' = dslMethods]_vars

\* Payload was called in the method add with a type, two descriptions and
\* a function: it reported the error and the method has the payload.
C19_FailingInput ==
    /\ dslCtx = "add"
    /\ dslVal = <<"prim", "string">>
    /\ Len(dslArgs) = 3
    /\ dslErrors = <<"too many arguments">>
    /\ dslMethods["add"] # <<>>
    /\ dslMethods["add"][1].Type = <<"prim", "string">>
    /\ dslMethods["divide"] = <<>>

\* C20: Payload given a user type and nothing else makes the payload refer
\* to that user type, which is not duplicated; given further arguments it
\* makes the payload refer to a duplicate, and the user type given, as every
\* user type there was, is as it was.
C20_DupOnlyWhenCustomized ==
    [][(dslCtx' \in MethodNames /\ dslVal'[1] = "user") =>
          /\ dslMethods'[dslCtx'] # <<>>
          /\ \A u \in UserIds : dslTypes[u] # <<>> => dslTypes'[u] = dslTypes[u]
          /\ IF dslArgs' = <<>>
             THEN /\ dslMethods'[dslCtx'][1].Type = dslVal'
                  /\ dslTypes' = dslTypes
             ELSE /\ dslMethods'[dslCtx'][1].Type[1] = "user"
                  /\ dslMethods'[dslCtx'][1].Type[2] \in DupIds
                  /\ dslTypes[dslMethods'[dslCtx'][1].Type[2]] = <<>>
                  /\ dslTypes'[dslMethods'[dslCtx'][1].Type[2]] # <<>>]_vars

\* The payload of add refers to Operands itself; that of divide to a
\* duplicate to which the function added an attribute, and Operands has its
\* two fields.
C20_Witness ==
    /\ dslMethods["add"] # <<>>
    /\ dslMethods["add"][1].Type = <<"user", "Operands">>
    /\ dslMethods["divide"] # <<>>
    /\ dslMethods["divide"][1].Type = <<"user", "dup1">>
    /\ dslTypes["dup1"] = <<<<"left", "right", "extra">>>>
    /\ dslTypes["Operands"] = <<<<"left", "right">>>>

-----------------------------------------------------------------------------
(* The endpoints of a service: the two loops of ServicesData.analyze over  *)
(* hs.HTTPEndpoints. The first builds the routes, the payload, the result  *)
(* and the errors of each endpoint and appends them to rd.Endpoints, the   *)
(* second collects the attribute types of each endpoint. svc.Scope and rd  *)
(* are shared by the endpoints. An identifier is the sequence of its       *)
(* characters.                                                             *)

\* The largest number of endpoints of a service.
MaxEndpoints == 2

Digits == <<"0", "1", "2", "3", "4", "5", "6", "7", "8", "9">>

\* strconv.Itoa of a number below 100.
Itoa(n) ==
    IF n < 10
    THEN <<Digits[n + 1]>>
    ELSE <<Digits[(n \div 10) + 1], Digits[(n % 10) + 1]>>

\* svc.StructName
StructName == <<"S">>

\* The name of a path constructor whatever the index of its path.
pathInitNameBare(varName, structName, i) ==
    varName \o structName \o <<"P", "a", "t", "h">>

\* fmt.Sprintf("%s%sPath%s", ep.VarName, svc.StructName, suffix): i is 0
\* when suffix is empty and the number suffix holds otherwise.
pathInitName(varName, structName, i) ==
    varName \o structName \o <<"P", "a", "t", "h">>
        \o (IF i > 0 THEN Itoa(i) ELSE <<>>)

\* The routes of an endpoint with the names of their path constructors.
namedRoutes(varName, rts) ==
    [k \in DOMAIN rts |->
        [rts[k] EXCEPT !.PathInit.Name = pathInitName(varName, StructName, @[2])]]

\* The VarName of the methods of a service: no two methods share one, and
\* the services declare the methods of shorter names first.
VarNames ==
    {<<"A">>, <<"A", "S">>, <<"A", "S", "P", "a", "t", "h">>,
     <<"A", "S", "P", "a", "t", "h", "2">>}

\* The routes of the endpoints with params.
ServiceRoutes ==
    {<< <<"a">>, <<"b", "a">> >>, << <<>>, <<"a">>, <<"a", "b">> >>}

\* The request and the response body of the endpoints without params.
ServiceBodies ==
    {<<AttributeOf(a), AttributeOf(b)>> :
        <<a, b>> \in {<<Empty, Empty>>, <<UserType("U2"), UserType("U2")>>,
                      <<UserType("U3"), UserType("U2")>>}}

\* The errors of the endpoints without params: none, one whose body is U2,
\* or one whose body is a string and one with no body.
ServiceErrors ==
    {<<>>,
     <<ErrorOf("not_found", 2, 404, UserType("U2"))>>,
     <<ErrorOf("bad_request", 3, 400, Primitive("string")),
       [ErrorOf("gone", 3, 410, Primitive("string")) EXCEPT !.Body = AttributeOf(Empty)]>>}

\* The endpoints of the services: the params a and b and some routes, or no
\* param and a request body, a response body and an error.
ServiceEndpoints ==
    {PathEndpoint(Primitive("string"), Primitive("string"), rts) : rts \in ServiceRoutes}
    \cup {BodyEndpoint(b[1], b[2], FALSE, errs) :
            b \in ServiceBodies,
            errs \in ServiceErrors}

\* The user types of the services: U1 is the payload of the endpoints with
\* params, U2 has two fields that use U3.
ServiceRegistry ==
    [U1 |-> Attribute(Object(<<Primitive("string"), Primitive("string")>>), {1, 2}, {}, FALSE),
     U2 |-> Attribute(Object(<<UserType("U3"), Array(UserType("U3"))>>), {1}, {}, FALSE),
     U3 |-> LeafType]

InitService ==
    /\ \E n \in 1..MaxEndpoints :
          \E names \in [1..n -> VarNames], es \in [1..n -> ServiceEndpoints] :
              /\ \A i, j \in 1..n : i < j => Len(names[i]) < Len(names[j])
              /\ svcEndpoints = [i \in 1..n |-> [VarName |-> names[i], Expr |-> es[i]]]
    /\ svcIndex = 1
    /\ svcPhase = "endpoints"
    /\ svcData = <<>>
    /\ endpoint = svcEndpoints[1].Expr
    /\ registry = ServiceRegistry
    /\ dt = Empty
    /\ calls = {}
    /\ initResult = FALSE
    /\ convResult = FALSE
    /\ InitAnalysis
    /\ IdleGet /\ IdleConv /\ IdleWalk /\ IdleGen /\ IdleDsl /\ IdleStream

\* rd.Endpoints = append(rd.Endpoints, ad), and the next endpoint of the first
\* loop, or the first endpoint of the second loop.
AppendEndpoint ==
    /\ svcPhase = "endpoints"
    /\ pc = "types"
    /\ svcData' = Append(svcData,
                         [VarName |-> svcEndpoints[svcIndex].VarName,
                          Routes |-> namedRoutes(svcEndpoints[svcIndex].VarName, routes),
                          Payload |-> payload[1],
                          Result |-> result[1],
                          Errors |-> errors])
    /\ IF svcIndex < Len(svcEndpoints)
       THEN /\ svcIndex' = svcIndex + 1
            /\ endpoint' = svcEndpoints[svcIndex + 1].Expr
            /\ pc' = "routes"
            /\ UNCHANGED svcPhase
       ELSE /\ svcIndex' = 1
            /\ endpoint' = svcEndpoints[1].Expr
            /\ svcPhase' = "types"
            /\ UNCHANGED pc
    /\ UNCHANGED <<svcEndpoints, registry, scope, routes, payload, result, errors, sd,
                   stdout, typeVars, getVars, convVars, walkVars, genVars, dslVars,
                   streamVars>>

\* The next endpoint of the second loop.
NextTypesEndpoint ==
    /\ svcPhase = "types"
    /\ pc = "done"
    /\ svcIndex < Len(svcEndpoints)
    /\ svcIndex' = svcIndex + 1
    /\ endpoint' = svcEndpoints[svcIndex + 1].Expr
    /\ pc' = "types"
    /\ UNCHANGED <<svcEndpoints, svcPhase, svcData, registry, scope, routes, payload,
                   result, errors, sd, stdout, typeVars, getVars, convVars, walkVars,
                   genVars, dslVars, streamVars>>

NextService ==
    \/ svcPhase = "endpoints" /\ AnalyzeRoutes
    \/ svcPhase = "endpoints" /\ BuildPayloadData
    \/ svcPhase = "endpoints" /\ BuildResultData
    \/ svcPhase = "endpoints" /\ BuildErrorsData
    \/ AppendEndpoint
    \/ svcPhase = "types" /\ CollectAttributeTypes
    \/ NextTypesEndpoint

SpecService == InitService /\ [][NextService]_vars

\* analyze returned: both loops are over.
ServiceAnalyzed ==
    svcPhase = "types" /\ pc = "done" /\ svcIndex = Len(svcEndpoints)

\* The routes of all the endpoints of rd.Endpoints.
ServiceRouteData == Flatten([k \in DOMAIN svcData |-> svcData[k].Routes])

\* C21: the names of the path constructors of all the routes of all the
\* endpoints of a service are pairwise distinct, and so are the names of the
\* arguments of each path constructor.
C21_IdentifiersDistinct ==
    /\ \A i, j \in DOMAIN ServiceRouteData :
          i # j => ServiceRouteData[i].PathInit.Name # ServiceRouteData[j].PathInit.Name
    /\ \A i \in DOMAIN ServiceRouteData :
          LET args == ServiceRouteData[i].PathInit.ServerArgs
          IN  \A a, b \in DOMAIN args : a # b => args[a].Name # args[b].Name

\* A service of two endpoints was analyzed: one endpoint has three paths, the
\* VarName of the other is the name of a path constructor of the first less
\* its last character, and a path constructor has two arguments.
C21_Witness ==
    /\ ServiceAnalyzed
    /\ Len(svcData) = 2
    /\ svcData[1].VarName = <<"A">>
    /\ Len(svcData[1].Routes) = 3
    /\ svcData[2].VarName = <<"A", "S", "P", "a", "t", "h">>
    /\ Len(svcData[2].Routes) = 2
    /\ \E i \in DOMAIN ServiceRouteData : Len(ServiceRouteData[i].PathInit.ServerArgs) = 2

-----------------------------------------------------------------------------
(* The generated server stream (streamSendT): Send, called by the          *)
(* goroutines of Senders on one stream. s.once is a sync.Once: the first   *)
(* call of Do runs f, the calls made while f runs wait for it to return,   *)
(* the later calls return at once. wire holds <<"upgrade", ok>> for a call  *)
(* of s.upgrader.Upgrade that returned a connection (ok) or an error, and  *)
(* <<"body", g>> for a body the goroutine g wrote with s.conn.WriteJSON.   *)

\* The largest number of calls of Send on a stream.
MaxSends == 3

InitStream ==
    /\ once = "new"
    /\ conn = Nil
    /\ sendPc = [g \in Senders |-> "idle"]
    /\ sendErr = [g \in Senders |-> FALSE]
    /\ sends = 0
    /\ wire = <<>>
    /\ IdleAnalysis
    /\ IdleGet /\ IdleConv /\ IdleWalk /\ IdleGen /\ IdleDsl /\ IdleSvc

otherThanStream ==
    <<typeVars, designVars, analysisVars, getVars, convVars, walkVars, genVars, dslVars,
      svcVars>>

\* Send is called: var err error.
CallSend(g) ==
    /\ sendPc[g] = "idle"
    /\ sends < MaxSends
    /\ sends' = sends + 1
    /\ sendErr' = [sendErr EXCEPT ![g] = FALSE]
    /\ sendPc' = [sendPc EXCEPT ![g] = "once"]
    /\ UNCHANGED <<once, conn, wire, otherThanStream>>

\* A Do that runs f at each call.
OnceDoAlways(g) ==
    /\ sendPc[g] = "once"
    /\ once' = "running"
    /\ sendPc' = [sendPc EXCEPT ![g] = "upgrade"]
    /\ UNCHANGED <<conn, sendErr, sends, wire, otherThanStream>>

\* s.once.Do(func() {...}): the first call starts f, a call made after f
\* returned returns, a call made while f runs waits.
OnceDo(g) ==
    /\ sendPc[g] = "once"
    /\ once # "running"
    /\ IF once = "new"
       THEN once' = "running" /\ sendPc' = [sendPc EXCEPT ![g] = "upgrade"]
       ELSE UNCHANGED once /\ sendPc' = [sendPc EXCEPT ![g] = "after"]
    /\ UNCHANGED <<conn, sendErr, sends, wire, otherThanStream>>

\* The function given to Do: conn, err = s.upgrader.Upgrade(s.w, s.r, ...),
\* and s.conn = conn unless err != nil; then Do returns.
Upgrade(g) ==
    /\ sendPc[g] = "upgrade"
    /\ \E ok \in BOOLEAN :
          /\ wire' = Append(wire, <<"upgrade", ok>>)
          /\ conn' = IF ok THEN <<"websocket">> ELSE conn
          /\ sendErr' = [sendErr EXCEPT ![g] = ~ok]
    /\ once' = "done"
    /\ sendPc' = [sendPc EXCEPT ![g] = "after"]
    /\ UNCHANGED <<sends, otherThanStream>>

\* if err != nil { s.Close(); return err }: Close returns at once when s.conn
\* is nil.
ReturnErr(g) ==
    /\ sendPc[g] = "after"
    /\ sendErr[g]
    /\ sendPc' = [sendPc EXCEPT ![g] = "idle"]
    /\ UNCHANGED <<once, conn, sendErr, sends, wire, otherThanStream>>

\* return s.conn.WriteJSON(body): the call panics when s.conn is nil.
WriteJSON(g) ==
    /\ sendPc[g] = "after"
    /\ ~sendErr[g]
    /\ IF conn = Nil
       THEN sendPc' = [sendPc EXCEPT ![g] = "panic"] /\ UNCHANGED wire
       ELSE sendPc' = [sendPc EXCEPT ![g] = "idle"] /\ wire' = Append(wire, <<"body", g>>)
    /\ UNCHANGED <<once, conn, sendErr, sends, otherThanStream>>

NextStream ==
    \E g \in Senders :
        \/ CallSend(g)
        \/ OnceDo(g)
        \/ Upgrade(g)
        \/ ReturnErr(g)
        \/ WriteJSON(g)

SpecStream == InitStream /\ [][NextStream]_vars

\* C22: whatever the calls of Send, the HTTP connection is upgraded at most
\* once, and a body is written only after the connection was upgraded.
C22_UpgradedOnceBeforeBodies ==
    /\ Cardinality({i \in DOMAIN wire : wire[i][1] = "upgrade"}) <= 1
    /\ \A i \in DOMAIN wire :
          wire[i][1] = "body" => \E j \in 1..(i - 1) : wire[j] = <<"upgrade", TRUE>>

\* Both goroutines wrote a body after the one upgrade, the second goroutine
\* first, and a third call of Send is past Do.
C22_Witness ==
    /\ wire = << <<"upgrade", TRUE>>, <<"body", 2>>, <<"body", 1>> >>
    /\ sends = MaxSends
    /\ \E g \in Senders : sendPc[g] = "after"

-----------------------------------------------------------------------------
(* The responses of a result: endpoints with several responses, with and   *)
(* without a tag. Each response of the design has its own status code.     *)

\* The largest number of responses of an endpoint.
MaxResponses == 4

\* The tags of the responses: none, or a field of the result and its value.
ResponseTags == {<<"", "">>, <<"outcome", "created">>, <<"outcome", "accepted">>}

\* An endpoint whose responses have the tags given and the body respBody.
ResponseEndpoint(tags, respBody) ==
    [BodyEndpoint(AttributeOf(Empty), respBody, FALSE, <<>>) EXCEPT
        !.Responses = [i \in DOMAIN tags |->
                          [Tag |-> tags[i], StatusCode |-> 200 + i, Headers |-> <<>>,
                           Body |-> respBody]]]

InitResponses ==
    /\ \E tags \in SeqsUpTo(ResponseTags, MaxResponses) \ {<<>>},
          respBody \in {AttributeOf(Empty), AttributeOf(UserType("U1")),
                        AttributeOf(Array(Primitive("string")))} :
          endpoint = ResponseEndpoint(tags, respBody)
    /\ registry = [U1 |-> LeafType, U2 |-> LeafType]
    /\ dt = Empty
    /\ calls = {}
    /\ initResult = FALSE
    /\ convResult = FALSE
    /\ InitAnalysis
    /\ InitOther

SpecResponses == InitResponses /\ [][NextAnalysis]_vars

\* The indices of the responses of rs with no tag.
Untagged(rs) == {i \in DOMAIN rs : rs[i].TagName = ""}

\* C23: the ResultData built holds at most one response with no tag, that
\* response is the last of Responses, and each response of the endpoint with
\* a tag is in Responses exactly once.
C23_OneUntaggedLast ==
    result # Nil =>
        LET rs == result[1].Responses
        IN  /\ Cardinality(Untagged(rs)) <= 1
            /\ Untagged(rs) \subseteq {Len(rs)}
            /\ \A k \in DOMAIN endpoint.Responses :
                  endpoint.Responses[k].Tag[1] # "" =>
                      Cardinality({i \in DOMAIN rs :
                          /\ rs[i].StatusCode = endpoint.Responses[k].StatusCode
                          /\ rs[i].TagName = endpoint.Responses[k].Tag[1]
                          /\ rs[i].TagValue = endpoint.Responses[k].Tag[2]}) = 1

\* The responses of the endpoint are one with no tag, one with a tag, a
\* second with no tag and a second with a tag; the result holds the two with
\* a tag and then the first with no tag.
C23_Witness ==
    /\ result # Nil
    /\ [k \in DOMAIN endpoint.Responses |-> endpoint.Responses[k].Tag[1]]
           = <<"", "outcome", "", "outcome">>
    /\ [i \in DOMAIN result[1].Responses |-> result[1].Responses[i].StatusCode]
           = <<204, 202, 201>>

-----------------------------------------------------------------------------
(* The attribute types of a service: what the second loop of analyze       *)
(* records in ServerBodyAttributeTypes and ClientBodyAttributeTypes.       *)

\* The names of the TypeData of ds.
Names(ds) == [i \in DOMAIN ds |-> ds[i].Name]

\* The responses of the errors of an endpoint of rd.Endpoints.
ErrorResponses(ad) ==
    Flatten([g \in DOMAIN ad.Errors |->
                [k \in DOMAIN ad.Errors[g].Errors |-> ad.Errors[g].Errors[k].Response]])

\* The names of the request, response and error body types of the endpoints
\* of rd.Endpoints, server side or client side.
BodyTypeNames(server) ==
    LET bodyOf(x) == IF server THEN x.ServerBody ELSE x.ClientBody
        responsesOf(ad) == ad.Result.Responses \o ErrorResponses(ad)
    IN  UNION {{bodyOf(ad.Payload.Request)[i].Name : i \in DOMAIN bodyOf(ad.Payload.Request)}
               \cup UNION {{bodyOf(r)[i].Name : i \in DOMAIN bodyOf(r)} :
                             r \in {responsesOf(ad)[k] : k \in DOMAIN responsesOf(ad)}} :
               ad \in {svcData[k] : k \in DOMAIN svcData}}

\* C24: ServerBodyAttributeTypes and ClientBodyAttributeTypes hold at most
\* one entry per user type name, and no entry that has the name of a request,
\* response or error body type of an endpoint of the service.
C24_AttributeTypesOnce ==
    /\ \A i, j \in DOMAIN sd.ServerBodyAttributeTypes :
          i # j => sd.ServerBodyAttributeTypes[i].Name # sd.ServerBodyAttributeTypes[j].Name
    /\ \A i, j \in DOMAIN sd.ClientBodyAttributeTypes :
          i # j => sd.ClientBodyAttributeTypes[i].Name # sd.ClientBodyAttributeTypes[j].Name
    /\ \A i \in DOMAIN sd.ServerBodyAttributeTypes :
          sd.ServerBodyAttributeTypes[i].Name \notin BodyTypeNames(TRUE)
    /\ \A i \in DOMAIN sd.ClientBodyAttributeTypes :
          sd.ClientBodyAttributeTypes[i].Name \notin BodyTypeNames(FALSE)

\* U2, whose fields use U3 twice, is the request and the response body of
\* the first endpoint and the error body of the second, and U3 is the body of
\* no endpoint: U3 is recorded once on each side.
C24_Witness ==
    /\ ServiceAnalyzed
    /\ Len(svcEndpoints) = 2
    /\ svcEndpoints[1].Expr.Body.Type = UserType("U2")
    /\ svcEndpoints[1].Expr.Result.Type = UserType("U2")
    /\ svcEndpoints[2].Expr.Body.Type = Empty
    /\ svcEndpoints[2].Expr.HTTPErrors # <<>>
    /\ BodyTypeNames(TRUE) = {"U2"}
    /\ Names(sd.ServerBodyAttributeTypes) = <<"U3">>
    /\ Names(sd.ClientBodyAttributeTypes) = <<"U3">>

-----------------------------------------------------------------------------
(* The callback of collectUserTypes.                                       *)

\* C25: within one top-level call of collectUserTypes the callback is given
\* each user type at most once, also when the user type is reachable through
\* several fields of an anonymous object, or through the key and the element
\* of a map, at the root of the type.
C25_CallbackOncePerType ==
    walkFn = "collectUserTypes" =>
        \A i, j \in DOMAIN walkCbs : i # j => walkCbs[i] # walkCbs[j]

\* collectUserTypes returned on the anonymous object with the fields U1 and
\* U2, where U1 has a field of the type U2: U2 was given to the callback
\* below U1 and again as the second field.
C25_FailingInput ==
    /\ walkFn = "collectUserTypes"
    /\ walkPc = "done"
    /\ dt = Object(<<UserType("U1"), UserType("U2")>>)
    /\ registry["U1"].Type = Object(<<UserType("U2")>>)
    /\ registry["U2"].Type = Object(<<Primitive("string")>>)
    /\ walkCbs = <<"U1", "U2", "U2">>

-----------------------------------------------------------------------------
(* The server and the client body types.                                   *)

\* The server and the client body type of x are both nil or both built.
SameNil(x) == (x.ServerBody = Nil) <=> (x.ClientBody = Nil)

\* C26: the server-side and the client-side body type buildBodyType returns
\* for one body are both nil or both non-nil: this holds of the bodies of the
\* errors, which buildErrorsData tests on the client side only, and of the
\* request and response bodies.
C26_BothNilOrNeither ==
    /\ \A g \in DOMAIN errors : \A j \in DOMAIN errors[g].Errors :
          SameNil(errors[g].Errors[j].Response)
    /\ payload # Nil => SameNil(payload[1].Request)
    /\ result # Nil => \A i \in DOMAIN result[1].Responses : SameNil(result[1].Responses[i])

\* The errors of an endpoint were built: the error bad_request has a string
\* body, server side and client side, and the error gone has neither.
C26_Witness ==
    /\ pc = "types"
    /\ Len(endpoint.HTTPErrors) = 2
    /\ \E g \in DOMAIN errors : \E j \in DOMAIN errors[g].Errors :
          /\ errors[g].Errors[j].Name = "bad_request"
          /\ errors[g].Errors[j].Response.ServerBody # Nil
          /\ errors[g].Errors[j].Response.ClientBody # Nil
    /\ \E g \in DOMAIN errors : \E j \in DOMAIN errors[g].Errors :
          /\ errors[g].Errors[j].Name = "gone"
          /\ errors[g].Errors[j].Response.ServerBody = Nil
          /\ errors[g].Errors[j].Response.ClientBody = Nil

-----------------------------------------------------------------------------
(* The errors of the transforms of the payload constructor.                *)

\* The source of the transforms buildPayloadData makes for the payload
\* constructor of the endpoint, nil if it makes none.
PayloadTransformSource ==
    IF needInit(endpoint.Payload.Type)
    THEN initSource(endpoint.Body.Type, endpoint.Payload.Type, endpoint.Params)
    ELSE Nil

\* The lines printed so far.
Printed == {stdout[i] : i \in DOMAIN stdout}

\* C27: once buildPayloadData returned, the error of every transform of the
\* payload constructor that failed was printed, the error of the server
\* transform as well as the error of the client transform, and the helpers of
\* a transform that failed were appended to neither list.
C27_TransformFailuresReported ==
    (payload # Nil /\ PayloadTransformSource # Nil
     /\ GoTypeTransform(PayloadTransformSource[1], endpoint.Payload.Type).err) =>
        /\ <<"server", PayloadTransformSource[1], endpoint.Payload.Type>> \in Printed
        /\ <<"client", PayloadTransformSource[1], endpoint.Payload.Type>> \in Printed
        /\ pc = "result" =>
              /\ sd.ServerTransformHelpers
                    = bodyTypeEffects(endpoint.Body, endpoint.Payload, TRUE, TRUE).server
              /\ sd.ClientTransformHelpers
                    = bodyTypeEffects(endpoint.Body, endpoint.Payload, TRUE, FALSE).client

\* buildPayloadData returned for a request body that is an array of strings
\* and a payload that is an object: both transforms failed, the error of the
\* client transform is the one line printed, and no helper was appended.
C27_FailingInput ==
    /\ pc = "result"
    /\ endpoint.Body.Type = Array(Primitive("string"))
    /\ endpoint.Payload.Type = UserType("U1")
    /\ GoTypeTransform(endpoint.Body.Type, endpoint.Payload.Type).err
    /\ stdout = << <<"client", Array(Primitive("string")), UserType("U1")>> >>
    /\ sd.ServerTransformHelpers = {}
    /\ sd.ClientTransformHelpers = {}

-----------------------------------------------------------------------------
(* Transform failures.                                                     *)

\* The constructors built so far from a body: the payload constructor and the
\* result constructors of the responses with a body, as their conversion code.
InitCodesBuilt ==
    (IF payload = Nil \/ endpoint.Body.Type = Empty THEN {}
     ELSE UNION {{x.ServerCode, x.ClientCode} : x \in Held(payload[1].PayloadInit)})
    \cup UNION {{x.ClientCode : x \in Held(r.ResultInit)} :
                   r \in {y \in ResponsesBuilt : Held(y.ClientBody) # {}}}

\* The body constructors built so far, as their conversion code.
BodyInitCodesBuilt ==
    UNION {{x.Code : x \in Held(td.Init)} : td \in EncodingBodies \cup DecodingBodies}

\* C11: a transform failure while building a payload, result, error or body
\* constructor aborts the compilation of the method: no constructor built from
\* a body is produced with missing conversion code.
C11_NoInitWithoutCode ==
    \A code \in InitCodesBuilt \cup BodyInitCodesBuilt : code # <<>>

\* A design whose request body is an array of strings and whose payload is
\* an object is compiled to the end, with a payload constructor that has no
\* conversion code.
C11_FailingInput ==
    /\ pc = "done"
    /\ endpoint.Body.Type = Array(Primitive("string"))
    /\ endpoint.Payload.Type = UserType("U1")
    /\ GoTypeTransform(endpoint.Body.Type, endpoint.Payload.Type).err
    /\ \E x \in Held(payload[1].PayloadInit) : x.ServerCode = <<>> /\ x.ClientCode = <<>>
====
